---------------------------- MODULE Spec2Model ----------------------------
(***************************************************************************)
(* Model of cosmic-store's appstream catalog cache                         *)
(* (src/src/appstream_cache.rs, src/src/app_info.rs).                      *)
(*                                                                         *)
(* One AppstreamCache instance lives in a process; catalog files and the   *)
(* per-user cache directory live on disk and outlive the process.  The     *)
(* public operations new, clean_cache, load_cache, save_cache,             *)
(* load_original and reload are actions; the parsers, AppInfo::new, the    *)
(* binary encoding and the icon resolver are operators.                    *)
(***************************************************************************)
EXTENDS Integers, Sequences, FiniteSets, TLC

(***************************************************************************)
(* Bounds of the model.                                                    *)
(***************************************************************************)
\* number of catalog file paths handed to new()
NumPaths == 2
\* number of changes other programs make to the catalog files
MaxEdits == 1
\* number of icon entries of the record handed to icon()
MaxIcons == 3
\* number of child nodes of an XML root, and of YAML documents after the
\* first, handed to a parser called on its own
MaxNodes == 3

(***************************************************************************)
(* Option<T>: None is the empty sequence, Some(x) the one-element one.     *)
(***************************************************************************)
None == <<>>
Some(x) == <<x>>
IsSome(o) == Len(o) = 1
Unwrap(o) == o[1]
\* Option::unwrap_or
UnwrapOr(o, d) == IF IsSome(o) THEN o[1] ELSE d

Min(a, b) == IF a < b THEN a ELSE b

\* an unspecified but fixed enumeration of a finite set (HashMap/HashSet
\* iteration order)
RECURSIVE SetToSeq(_)
SetToSeq(S) ==
    IF S = {} THEN <<>>
    ELSE LET x == CHOOSE y \in S : TRUE IN <<x>> \o SetToSeq(S \ {x})

\* ascending enumeration of a finite set of integers (BTreeMap key order)
RECURSIVE SortedSeq(_)
SortedSeq(S) ==
    IF S = {} THEN <<>>
    ELSE LET x == CHOOSE y \in S : \A z \in S : y <= z
         IN <<x>> \o SortedSeq(S \ {x})

\* the empty map
EmptyMap == [x \in {} |-> x]
\* a let binding: With(x, F) is F(x), with x evaluated once
With(x, F(_)) == CHOOSE y \in {F(v) : v \in {x}} : TRUE

\* HashMap::insert / BTreeMap::insert: the new value replaces an old one
MapInsert(m, k, v) ==
    With(m, LAMBDA old :
        [x \in DOMAIN old \cup {k} |-> IF x = k THEN v ELSE old[x]])

(***************************************************************************)
(* app_info.rs                                                             *)
(***************************************************************************)
\* appstream::TranslatableString is a map locale -> string whose default
\* entry is stored under locale "C"; here a record keyed by locale.
get_for_locale(translatable, locale) ==
    IF locale \in DOMAIN translatable THEN Some(translatable[locale]) ELSE None
get_default(translatable) ==
    IF "C" \in DOMAIN translatable THEN Some(translatable["C"]) ELSE None

\* a lookup without the default string
get_translatable_no_default(translatable, locale) ==
    IF IsSome(get_for_locale(translatable, locale))
    THEN Unwrap(get_for_locale(translatable, locale))
    ELSE ""

get_translatable(translatable, locale) ==
    IF IsSome(get_for_locale(translatable, locale))
    THEN Unwrap(get_for_locale(translatable, locale))
    ELSE IF IsSome(get_default(translatable))
         THEN Unwrap(get_default(translatable))
         ELSE ""

\* AppIcon::Cached(name, width, height, scale) and AppIcon::Stock(name)
Cached(name, width, height, scale) ==
    [tag |-> "Cached", name |-> name, width |-> width, height |-> height,
     scale |-> scale]
Stock(name) == [tag |-> "Stock", name |-> name]

\* component.icons filter_map: Cached (with a UTF-8 path) and Stock are
\* kept, every other icon kind is dropped
RECURSIVE ConvertIcons(_)
ConvertIcons(icons) ==
    IF icons = <<>> THEN <<>>
    ELSE LET icon == Head(icons)
             rest == ConvertIcons(Tail(icons))
         IN  IF icon.tag = "Cached"
             THEN IF icon.utf8
                  THEN <<Cached(icon.path, icon.width, icon.height, icon.scale)>>
                       \o rest
                  ELSE rest
             ELSE IF icon.tag = "Stock" THEN <<Stock(icon.name)>> \o rest
             ELSE rest

\* component.launchables filter_map: only Launchable::DesktopId is kept
RECURSIVE ConvertLaunchables(_)
ConvertLaunchables(ls) ==
    IF ls = <<>> THEN <<>>
    ELSE IF Head(ls).tag = "DesktopId"
         THEN <<Head(ls).id>> \o ConvertLaunchables(Tail(ls))
         ELSE ConvertLaunchables(Tail(ls))

\* AppInfo::new(origin_opt, component, locale)
AppInfoNew(origin_opt, component, locale) ==
    With(component, LAMBDA c :
        [origin_opt  |-> origin_opt,
         name        |-> get_translatable(c.name, locale),
         summary     |-> IF IsSome(c.summary)
                         THEN get_translatable(Unwrap(c.summary), locale)
                         ELSE "",
         pkgname     |-> c.pkgname,
         icons       |-> ConvertIcons(c.icons),
         desktop_ids |-> ConvertLaunchables(c.launchables)])


(***************************************************************************)
(* Catalog files.  A file's content is named; Content gives what the name  *)
(* stands for: whether the bytes are gzip-compressed, which syntax they    *)
(* are in, and the document.  An XML document is a root element with an    *)
(* optional version and origin attribute and child nodes; a YAML document  *)
(* stream is a sequence of documents, the first one the header.            *)
(***************************************************************************)
Locales == {"en", "de"}

\* a decoded appstream Component
Component(kind, id, pkgname, name, summary, icons, launchables) ==
    [kind |-> kind, id |-> id, pkgname |-> pkgname, name |-> name,
     summary |-> summary, icons |-> icons, launchables |-> launchables]

IconCached(path, utf8, width, height, scale) ==
    [tag |-> "Cached", path |-> path, utf8 |-> utf8, width |-> width,
     height |-> height, scale |-> scale]
IconStock(name) == [tag |-> "Stock", name |-> name]
IconRemote(url) == [tag |-> "Remote", name |-> url]
LaunchDesktopId(id) == [tag |-> "DesktopId", id |-> id]
LaunchService(id) == [tag |-> "Service", id |-> id]

\* an XML child node: a component element that decodes, one that does not,
\* or some other node
XmlComponent(c) == [elem |-> "component", decodes |-> TRUE, comp |-> <<c>>]
XmlBadComponent == [elem |-> "component", decodes |-> FALSE, comp |-> <<>>]
XmlOther == [elem |-> "other", decodes |-> FALSE, comp |-> <<>>]

\* a YAML document: one serde_yaml cannot read, the header, or a component
\* with its raw Icon and Launchable maps (sequences of <<key, value>>)
YamlBadDoc ==
    [valid |-> FALSE, Origin |-> None, decodes |-> FALSE, comp |-> <<>>,
     Icon |-> None, Launchable |-> None]
YamlHeader(origin) ==
    [valid |-> TRUE, Origin |-> origin, decodes |-> FALSE, comp |-> <<>>,
     Icon |-> None, Launchable |-> None]
YamlComponent(c, icon, launchable) ==
    [valid |-> TRUE, Origin |-> None, decodes |-> TRUE, comp |-> <<c>>,
     Icon |-> icon, Launchable |-> launchable]
YamlBadComponent ==
    [valid |-> TRUE, Origin |-> None, decodes |-> FALSE, comp |-> <<>>,
     Icon |-> None, Launchable |-> None]

\* a raw YAML value: a sequence or a string (as_sequence / as_str give
\* None for the other shape)
YSeq(items) == [seq |-> Some(items), str |-> None]
YStr(string) == [seq |-> None, str |-> Some(string)]

CompA1 ==
    Component("DesktopApplication", "app.a", Some("pkg.p"),
              [C |-> "A", de |-> "A-de"], Some([C |-> "first a"]),
              <<IconCached("a.png", TRUE, Some(64), Some(64), None),
                IconRemote("http://a"), IconStock("a-stock")>>,
              <<LaunchDesktopId("a.desktop"), LaunchService("a.service")>>)
CompA2 ==
    Component("DesktopApplication", "app.a", Some("pkg.q"),
              [C |-> "A again"], None, <<>>, <<>>)
CompA3 ==
    Component("DesktopApplication", "app.a", None,
              [en |-> "A yaml"], Some([de |-> "dritte"]), <<>>, <<>>)
CompB ==
    Component("DesktopApplication", "app.b", Some("pkg.p"),
              [C |-> "B"], None, <<>>, <<>>)
CompC ==
    Component("DesktopApplication", "app.c", Some("pkg.q"),
              [C |-> "C", en |-> "C-en"], None, <<>>, <<>>)
CompFont ==
    Component("Font", "font.f", Some("pkg.f"), [C |-> "F"], None, <<>>, <<>>)


Content(c) ==
    CASE c = "xmlMain" ->
           [gz |-> FALSE, syntax |-> "xml", version |-> TRUE,
            origin |-> Some("o1"),
            nodes |-> <<XmlComponent(CompA1), XmlOther, XmlComponent(CompFont),
                        XmlBadComponent, XmlComponent(CompB)>>]
      [] c = "xmlDup" ->
           [gz |-> FALSE, syntax |-> "xml", version |-> TRUE,
            origin |-> None,
            nodes |-> <<XmlComponent(CompA2), XmlComponent(CompA1)>>]
      [] c = "xmlNoVersion" ->
           [gz |-> FALSE, syntax |-> "xml", version |-> FALSE,
            origin |-> Some("o1"),
            nodes |-> <<XmlComponent(CompB)>>]
      [] c = "yamlGz" ->
           [gz |-> TRUE, syntax |-> "yaml", version |-> FALSE,
            origin |-> None,
            nodes |-> <<YamlHeader(Some("o2")),
                        YamlComponent(CompA3,
                            Some(<<<<"cached",
                                     YSeq(<<[name |-> Some("y.png"),
                                             width |-> Some(32),
                                             height |-> Some(32),
                                             scale |-> Some(2)],
                                            [name |-> None, width |-> None,
                                             height |-> None,
                                             scale |-> None]>>)>>,
                                   <<"remote", YSeq(<<>>)>>,
                                   <<"stock", YStr("y-stock")>>,
                                   <<"stock", YSeq(<<>>)>>,
                                   <<"local", YStr("y-local")>> >>),
                            Some(<<<<"desktop-id",
                                     YSeq(<<YStr("y.desktop"), YSeq(<<>>)>>)>>,
                                   <<"desktop-id", YStr("z.desktop")>>,
                                   <<"service", YSeq(<<>>)>> >>)),
                        YamlBadDoc,
                        YamlComponent(CompFont, None, None),
                        YamlBadComponent,
                        YamlComponent(CompC, None, None)>>]
      [] OTHER ->
           [gz |-> FALSE, syntax |-> "garbage", version |-> FALSE,
            origin |-> None, nodes |-> <<>>]

\* metadata.len() of a file with this content; two different contents may
\* have the same length
SizeOf(c) ==
    CASE c = "xmlMain" -> 300
      [] c = "xmlDup" -> 200
      [] c = "xmlNoVersion" -> 200
      [] c = "yamlGz" -> 100
      [] OTHER -> 100

Paths == 1 .. NumPaths
\* file name of a canonical path; paths sort in the order of their numbers
FileName(p) ==
    CASE p = 1 -> <<"a", "xml">>
      [] p = 2 -> <<"b", "yml", "gz">>
      [] p = 3 -> <<"c", "txt">>
      [] p = 4 -> <<"d", "xml", "gz">>
      [] OTHER -> <<"e", "yml">>

\* str::ends_with on file names written as their dot-separated parts
EndsWith(name, suffix) ==
    /\ Len(name) >= Len(suffix)
    /\ SubSeq(name, Len(name) - Len(suffix) + 1, Len(name)) = suffix

\* a parser's result: Err, or Ok(sequence of <<id, info>>)
Err == [ok |-> FALSE, infos |-> <<>>]
Ok(infos) == [ok |-> TRUE, infos |-> infos]

\* what a reader over the file's bytes delivers: with a GzDecoder
\* (gunzip = TRUE) bytes that are not gzip data are a read error, and
\* without one gzip data is not a text document
Stream(content, gunzip) ==
    IF content.gz = gunzip THEN content
    ELSE [content EXCEPT !.syntax = "garbage", !.nodes = <<>>]


\* a closure without the test of the component's kind
XmlNodeAnyKind(node, origin_opt, locale) ==
    IF node.elem = "component" /\ node.decodes
    THEN Some(<<Unwrap(node.comp).id,
                AppInfoNew(origin_opt, Unwrap(node.comp), locale)>>)
    ELSE None

\* the closure parse_xml runs on one child of the root, in parallel with
\* the others: a component element that decodes to a desktop application
\* gives (id, AppInfo), anything else nothing
XmlNode(node, origin_opt, locale) ==
    IF node.elem = "component" /\ node.decodes
       /\ Unwrap(node.comp).kind = "DesktopApplication"
    THEN Some(<<Unwrap(node.comp).id,
                AppInfoNew(origin_opt, Unwrap(node.comp), locale)>>)
    ELSE None

\* parse_xml's par_iter().filter_map().collect() over the root's children:
\* the outputs of the children that gave one, in the order of the children
RECURSIVE XmlInfos(_, _, _)
XmlInfos(nodes, origin_opt, locale) ==
    IF nodes = <<>> THEN <<>>
    ELSE LET out == XmlNode(Head(nodes), origin_opt, locale)
             rest == XmlInfos(Tail(nodes), origin_opt, locale)
         IN  IF IsSome(out) THEN <<Unwrap(out)>> \o rest ELSE rest

parse_xml(stream, locale) ==
    IF stream.syntax # "xml" THEN Err
    ELSE IF ~stream.version THEN Err
    ELSE Ok(XmlInfos(stream.nodes, stream.origin, locale))

\* parse_yaml, "cached" key: one Icon::Cached per entry with a string name
RECURSIVE YamlCachedIcons(_)
YamlCachedIcons(entries) ==
    IF entries = <<>> THEN <<>>
    ELSE LET cached == Head(entries)
             rest == YamlCachedIcons(Tail(entries))
         IN  IF IsSome(cached.name)
             THEN <<IconCached(Unwrap(cached.name), TRUE, cached.width,
                               cached.height, cached.scale)>> \o rest
             ELSE rest

\* parse_yaml, the Icon mapping: the icons pushed onto component.icons
RECURSIVE YamlIcons(_)
YamlIcons(mapping) ==
    IF mapping = <<>> THEN <<>>
    ELSE LET key == Head(mapping)[1]
             icon == Head(mapping)[2]
             rest == YamlIcons(Tail(mapping))
         IN  CASE key = "cached" ->
                    IF IsSome(icon.seq)
                    THEN YamlCachedIcons(Unwrap(icon.seq)) \o rest
                    ELSE rest
               [] key = "remote" -> rest
               [] key = "stock" ->
                    IF IsSome(icon.str)
                    THEN <<IconStock(Unwrap(icon.str))>> \o rest
                    ELSE rest
               [] OTHER -> rest

RECURSIVE YamlDesktopIds(_)
YamlDesktopIds(entries) ==
    IF entries = <<>> THEN <<>>
    ELSE IF IsSome(Head(entries).str)
         THEN <<LaunchDesktopId(Unwrap(Head(entries).str))>>
              \o YamlDesktopIds(Tail(entries))
         ELSE YamlDesktopIds(Tail(entries))

\* parse_yaml, the Launchable mapping: the launchables pushed onto
\* component.launchables
RECURSIVE YamlLaunchables(_)
YamlLaunchables(mapping) ==
    IF mapping = <<>> THEN <<>>
    ELSE LET key == Head(mapping)[1]
             launchable == Head(mapping)[2]
             rest == YamlLaunchables(Tail(mapping))
         IN  IF key = "desktop-id" /\ IsSome(launchable.seq)
             THEN YamlDesktopIds(Unwrap(launchable.seq)) \o rest
             ELSE rest

\* parse_yaml's loop over the documents from index doc_i on, with the
\* origin read so far
RECURSIVE YamlInfos(_, _, _, _)
YamlInfos(docs, doc_i, origin_opt, locale) ==
    IF doc_i > Len(docs) THEN <<>>
    ELSE LET doc == docs[doc_i]
         IN  IF ~doc.valid THEN YamlInfos(docs, doc_i + 1, origin_opt, locale)
             ELSE IF doc_i = 1
             THEN YamlInfos(docs, doc_i + 1, doc.Origin, locale)
             ELSE IF doc.decodes
                     /\ Unwrap(doc.comp).kind = "DesktopApplication"
             THEN LET c == Unwrap(doc.comp)
                      component ==
                        [c EXCEPT
                           !.icons = c.icons \o
                              (IF IsSome(doc.Icon)
                               THEN YamlIcons(Unwrap(doc.Icon)) ELSE <<>>),
                           !.launchables = c.launchables \o
                              (IF IsSome(doc.Launchable)
                               THEN YamlLaunchables(Unwrap(doc.Launchable))
                               ELSE <<>>)]
                  IN  <<<<component.id,
                          AppInfoNew(origin_opt, component, locale)>>>>
                      \o YamlInfos(docs, doc_i + 1, origin_opt, locale)
             ELSE YamlInfos(docs, doc_i + 1, origin_opt, locale)

\* bytes that are no YAML stream give one document that cannot be read
parse_yaml(stream, locale) ==
    Ok(YamlInfos(IF stream.syntax = "yaml" THEN stream.nodes
                 ELSE <<YamlBadDoc>>, 1, None, locale))


(***************************************************************************)
(* State.                                                                  *)
(***************************************************************************)
VARIABLES
    \* the disk: catalog files, and how often other programs changed them
    fs, edits,
    \* the per-user cache directory: whether dirs::cache_dir() is known,
    \* whether the directory exists, the files with other names in it, the
    \* versioned cache file, and atomicwrites' temporary file
    homeKnown, dirExists, staleFiles, cacheFile, tmpFile,
    \* the instance state the cache file was last saved from, if any
    saved,
    \* the AppstreamCache instance
    path_tags, icons_paths, locale, infos, pkgnames,
    \* where the process is, whether reload is running, the operations the
    \* running (or last) reload has called, and how its load_cache (or the
    \* load_cache called last) ended
    pc, reloading, calls, loadResult,
    \* icon(): the record, the icon files on disk, and the handle returned
    icon_info, icon_files, icon_handle,
    \* the parallel stage of load_original: the parse tasks that have
    \* finished, with their outputs, in the order they finished
    finished,
    \* a parser or AppInfo::new called on its own: the arguments, and the
    \* value returned
    input, output

diskVars ==
    <<fs, edits, homeKnown, dirExists, staleFiles, cacheFile, tmpFile, saved>>
instVars == <<path_tags, icons_paths, locale, infos, pkgnames>>
ctlVars == <<pc, reloading, calls, loadResult>>
iconVars == <<icon_info, icon_files, icon_handle>>
parVars == <<finished>>
fnVars == <<input, output>>
vars == <<diskVars, instVars, ctlVars, iconVars, parVars, fnVars>>

\* a catalog file: absent, or a content with a modification time (seconds
\* since the Unix epoch, negative before it); `metadata` tells whether
\* fs::metadata succeeds on it
NoFile == [exists |-> FALSE, content |-> "", modified |-> 0,
           metadata |-> FALSE]
File(c, m) == [exists |-> TRUE, content |-> c, modified |-> m,
               metadata |-> TRUE]
NoMetadata(file) == [file EXCEPT !.metadata = FALSE]

\* a file of the cache directory: absent, bytes that do not decode, the
\* first part of an encoding, or a complete encoding
NoData == [kind |-> "absent", data |-> <<>>]
Garbage == [kind |-> "garbage", data |-> <<>>]
Partial == [kind |-> "partial", data |-> <<>>]
Bitcode(encoded) == [kind |-> "bitcode", data |-> <<encoded>>]

\* AppstreamCacheTag of a file
Tag(file) == [modified |-> file.modified, size |-> SizeOf(file.content)]

\* the icon-theme root lists new() is called with
IconsPathsChoices == {<<"icons2", "icons1">>}

(***************************************************************************)
(* AppstreamCache::new.  The caller passes a list of paths; a path is      *)
(* either a canonical path (a member of Paths) or LinkPath, another name   *)
(* of path 1 (a symbolic link or a relative spelling).  For each path in   *)
(* turn: fs::canonicalize fails when no such file exists, fs::metadata may *)
(* fail, and the conversion of the modification time to seconds since the  *)
(* Unix epoch fails for a time before the epoch.  Each failure is logged   *)
(* and the loop continues with the next path.                              *)
(***************************************************************************)
LinkPath == 0
InputPaths == Paths \cup {LinkPath}
Canonicalize(path) == IF path = LinkPath THEN 1 ELSE path
AllPaths == [i \in 1..NumPaths |-> i]

\* the path fails one of the fallible steps of the loop body
PathFails(path, disk) ==
    LET canonical == Canonicalize(path) IN
    \/ ~disk[canonical].exists
    \/ ~disk[canonical].metadata
    \/ disk[canonical].modified < 0

\* a build that gives up at the first failing path
RECURSIVE NewPathTagsOrAbort(_, _)
NewPathTagsOrAbort(paths, disk) ==
    IF paths = <<>> THEN EmptyMap
    ELSE IF PathFails(Head(paths), disk) THEN EmptyMap
    ELSE LET canonical == Canonicalize(Head(paths))
             rest == NewPathTagsOrAbort(Tail(paths), disk)
         IN  MapInsert(rest, canonical, Tag(disk[canonical]))

RECURSIVE NewPathTags(_, _)
NewPathTags(paths, disk) ==
    IF paths = <<>> THEN EmptyMap
    ELSE LET n == Len(paths)
             path == paths[n]
             canonical == Canonicalize(path)
             before == NewPathTags(SubSeq(paths, 1, n - 1), disk)
         IN  IF PathFails(path, disk) THEN before
             ELSE MapInsert(before, canonical, Tag(disk[canonical]))

NewWith(paths, l, ip) ==
    /\ pc \in {"idle", "crashed"}
    /\ icons_paths' = ip
    /\ locale' = l
    /\ path_tags' = NewPathTags(paths, fs)
    /\ infos' = EmptyMap
    /\ pkgnames' = EmptyMap
    /\ pc' = "idle"
    /\ reloading' = FALSE
    /\ calls' = <<>>
    /\ loadResult' = "none"
    /\ UNCHANGED <<diskVars, iconVars, parVars,
                   fnVars>>

\* new() on the configured catalog paths
New ==
    \E l \in Locales, ip \in IconsPathsChoices :
        NewWith(AllPaths, l, ip)

\* new() on the configured catalog paths with any list of icon-theme roots
RootsChoices == IconsPathsChoices \cup {<<"icons1">>, <<>>}
NewRoots ==
    \E l \in Locales, ip \in RootsChoices :
        NewWith(AllPaths, l, ip)

\* new() on any list of paths
PathLists == {<<>>} \cup {<<a>> : a \in InputPaths}
             \cup {<<a, b>> : a \in InputPaths, b \in InputPaths}
NewFrom(paths) ==
    \E l \in Locales, ip \in IconsPathsChoices :
        NewWith(paths, l, ip)
NewAny == \E paths \in PathLists : NewFrom(paths)

(***************************************************************************)
(* Other programs: a catalog file is written, within the second of its    *)
(* modification time or a second later, or removed.                        *)
(***************************************************************************)
\* the contents other programs write to a path
PathContents(p) ==
    CASE p = 1 -> {"xmlMain", "xmlDup", "xmlNoVersion", "garbage"}
      [] p = 2 -> {"yamlGz", "garbage"}
      [] OTHER -> {"garbage"}

WriteFile ==
    /\ edits < MaxEdits
    /\ \E p \in Paths, later \in 0 .. 1 :
         \E c \in PathContents(p) :
           /\ File(c, fs[p].modified + later) # fs[p]
           /\ fs' = [fs EXCEPT ![p] = File(c, fs[p].modified + later)]
    /\ edits' = edits + 1
    /\ UNCHANGED <<homeKnown, dirExists, staleFiles, cacheFile, tmpFile,
                   saved, instVars, ctlVars, iconVars, parVars,
                   fnVars>>

RemoveFile ==
    /\ edits < MaxEdits
    /\ \E p \in Paths :
         /\ fs[p].exists
         /\ fs' = [fs EXCEPT ![p] = NoFile]
    /\ edits' = edits + 1
    /\ UNCHANGED <<homeKnown, dirExists, staleFiles, cacheFile, tmpFile,
                   saved, instVars, ctlVars, iconVars, parVars,
                   fnVars>>


(***************************************************************************)
(* clean_cache                                                             *)
(***************************************************************************)
\* the versioned cache file is the only name clean_cache keeps
CacheFilename == "appstream_cache-v0-1.bitcode-v0-5"
\* names an older version of the program left in the cache directory
StaleNames == {"appstream_cache-v0-0.bitcode-v0-5"}

\* what the step leaves the process at: the next call of reload, or idle
After(next) == IF reloading THEN next ELSE "idle"
Called(op) == IF reloading THEN Append(calls, op) ELSE <<>>
\* loadResult is the result of the running reload's load_cache
KeptResult == IF reloading THEN loadResult ELSE "none"
\* a public method is called on its own, or as the step reload is at
At(stage) == (pc = "idle" /\ ~reloading) \/ (pc = stage /\ reloading)

\* the names of the regular files in the cache directory
DirEntries ==
    staleFiles \cup (IF cacheFile.kind = "absent" THEN {} ELSE {CacheFilename})

\* a removal loop that does not compare the entry's name
RemovedAnyName(failed) == DirEntries \ failed

\* the entries the loop removes when reading or removing the entries in
\* failed fails: those with another name than the versioned cache file
Removed(failed) == {n \in DirEntries \ failed : n # CacheFilename}

\* what every call of clean_cache does besides its work on the directory
CleanReturns ==
    /\ At("clean")
    /\ pc' = After("load")
    /\ calls' = Called("clean_cache")
    /\ loadResult' = KeptResult
    /\ UNCHANGED <<fs, edits, homeKnown, tmpFile, saved, instVars, reloading,
                   iconVars, parVars,
                   fnVars>>

\* the loop over the directory entries
CleanEntries(failed) ==
    /\ homeKnown
    /\ dirExists' = TRUE
    /\ staleFiles' = staleFiles \ Removed(failed)
    /\ cacheFile' = IF CacheFilename \in Removed(failed) THEN NoData
                    ELSE cacheFile

\* a clean_cache whose early return ends the reload that called it
CleanCacheFailsAborts ==
    /\ At("clean")
    /\ pc' = "idle"
    /\ reloading' = FALSE
    /\ calls' = Called("clean_cache")
    /\ loadResult' = KeptResult
    /\ UNCHANGED <<diskVars, instVars, iconVars, parVars, fnVars>>

\* clean_cache returns early: no cache directory is known, create_dir_all
\* fails, or read_dir fails (of a directory that was there or was created)
CleanCacheFails ==
    /\ CleanReturns
    /\ \/ /\ ~homeKnown \/ ~dirExists
          /\ UNCHANGED <<dirExists, staleFiles, cacheFile>>
       \/ /\ homeKnown
          /\ dirExists' = TRUE
          /\ UNCHANGED <<staleFiles, cacheFile>>

\* clean_cache goes through the directory and reading or removing some
\* entries fails
CleanCachePartly ==
    /\ CleanReturns
    /\ \E failed \in SUBSET DirEntries : failed # {} /\ CleanEntries(failed)

\* clean_cache goes through the directory without any failure
CleanCacheCompletes ==
    /\ CleanReturns
    /\ CleanEntries({})

CleanCache == CleanCacheCompletes \/ CleanCachePartly \/ CleanCacheFails

(***************************************************************************)
(* The bitcode encoding: maps and sets are written as sequences of their   *)
(* entries and read back by inserting the entries one by one.              *)
(***************************************************************************)
RECURSIVE MapEntries(_, _)
MapEntries(m, keys) ==
    IF keys = <<>> THEN <<>>
    ELSE <<<<Head(keys), m[Head(keys)]>>>> \o MapEntries(m, Tail(keys))

RECURSIVE MapFromEntries(_)
MapFromEntries(entries) ==
    IF entries = <<>> THEN EmptyMap
    ELSE LET e == entries[Len(entries)]
         IN  MapInsert(MapFromEntries(SubSeq(entries, 1, Len(entries) - 1)),
                       e[1], e[2])

RECURSIVE SetFromSeq(_)
SetFromSeq(q) == IF q = <<>> THEN {} ELSE {Head(q)} \cup SetFromSeq(Tail(q))

\* an encoding that leaves the package index out
EncodeNoPkgnames(self) ==
    [path_tags   |-> MapEntries(self.path_tags, SortedSeq(DOMAIN self.path_tags)),
     icons_paths |-> self.icons_paths,
     locale      |-> self.locale,
     infos       |-> MapEntries(self.infos, SetToSeq(DOMAIN self.infos)),
     pkgnames    |-> <<>>]

\* bitcode::encode::<AppstreamCache>
Encode(self) ==
    [path_tags   |-> MapEntries(self.path_tags, SortedSeq(DOMAIN self.path_tags)),
     icons_paths |-> self.icons_paths,
     locale      |-> self.locale,
     infos       |-> MapEntries(self.infos, SetToSeq(DOMAIN self.infos)),
     pkgnames    |-> MapEntries([k \in DOMAIN self.pkgnames
                                  |-> SetToSeq(self.pkgnames[k])],
                                SetToSeq(DOMAIN self.pkgnames))]

\* bitcode::decode::<AppstreamCache> of the bytes of a complete encoding
Decode(encoded) ==
    [path_tags   |-> MapFromEntries(encoded.path_tags),
     icons_paths |-> encoded.icons_paths,
     locale      |-> encoded.locale,
     infos       |-> MapFromEntries(encoded.infos),
     pkgnames    |-> LET m == MapFromEntries(encoded.pkgnames)
                     IN  [k \in DOMAIN m |-> SetFromSeq(m[k])]]

(***************************************************************************)
(* load_cache                                                              *)
(***************************************************************************)
\* load_cache without the comparison of path_tags
StalenessLocaleOnly(cache) ==
    IF cache.locale # locale THEN "locale" ELSE "loaded"

\* load_cache without the comparison of locale
StalenessTagsOnly(cache) ==
    IF cache.path_tags # path_tags THEN "tags" ELSE "loaded"

\* a load_cache that compares icons_paths too
StalenessWithRoots(cache) ==
    IF cache.path_tags # path_tags THEN "tags"
    ELSE IF cache.icons_paths # icons_paths THEN "roots"
    ELSE IF cache.locale # locale THEN "locale"
    ELSE "loaded"

\* the staleness comparisons of load_cache, in the code's order
Staleness(cache) ==
    IF cache.path_tags # path_tags THEN "tags"
    ELSE IF cache.locale # locale THEN "locale"
    ELSE "loaded"

\* how load_cache ends when fs::read succeeds (readOk) or fails
LoadCacheResult(readOk) ==
    IF ~homeKnown THEN "nodir"
    ELSE IF ~readOk \/ cacheFile.kind = "absent" THEN "unreadable"
    ELSE IF cacheFile.kind # "bitcode" THEN "undecodable"
    ELSE Staleness(Decode(Unwrap(cacheFile.data)))

\* load_cache copying infos only
AdoptInfosOnly(cache) ==
    /\ infos' = cache.infos
    /\ UNCHANGED pkgnames

\* "Everything matches, copy infos and pkgnames"
Adopt(cache) ==
    /\ infos' = cache.infos
    /\ pkgnames' = cache.pkgnames

\* a load_cache that copies infos and pkgnames as soon as the cache file
\* decodes, before the tags and the locale are compared
LoadCacheAdoptsEarly ==
    /\ At("load")
    /\ \E readOk \in BOOLEAN :
         LET result == LoadCacheResult(readOk)
         IN  /\ loadResult' = result
             /\ IF result \in {"loaded", "tags", "locale"}
                THEN Adopt(Decode(Unwrap(cacheFile.data)))
                ELSE UNCHANGED <<infos, pkgnames>>
             /\ IF result = "loaded"
                THEN /\ pc' = "idle"
                     /\ reloading' = FALSE
                ELSE /\ pc' = After("orig")
                     /\ UNCHANGED reloading
    /\ calls' = Called("load_cache")
    /\ UNCHANGED <<diskVars, path_tags, icons_paths, locale, iconVars, parVars,
                   fnVars>>

\* a load_cache that unwraps the decode result: a cache file that does not
\* decode ends the process
LoadCacheUnwrap ==
    /\ At("load")
    /\ \E readOk \in BOOLEAN :
         LET result == LoadCacheResult(readOk)
         IN  /\ loadResult' = result
             /\ IF result = "loaded"
                THEN /\ Adopt(Decode(Unwrap(cacheFile.data)))
                     /\ pc' = "idle"
                ELSE /\ UNCHANGED <<infos, pkgnames>>
                     /\ pc' = IF result = "undecodable" THEN "crashed"
                              ELSE After("orig")
             /\ reloading' = (reloading /\ result \notin {"loaded", "undecodable"})
    /\ calls' = Called("load_cache")
    /\ UNCHANGED <<diskVars, path_tags, icons_paths, locale, iconVars, parVars,
                   fnVars>>

LoadCache ==
    /\ At("load")
    /\ \E readOk \in BOOLEAN :
         LET result == LoadCacheResult(readOk)
         IN  /\ loadResult' = result
             /\ IF result = "loaded"
                THEN /\ Adopt(Decode(Unwrap(cacheFile.data)))
                     /\ pc' = "idle"
                     /\ reloading' = FALSE
                ELSE /\ UNCHANGED <<infos, pkgnames>>
                     /\ pc' = After("orig")
                     /\ UNCHANGED reloading
    /\ calls' = Called("load_cache")
    /\ UNCHANGED <<diskVars, path_tags, icons_paths, locale, iconVars, parVars,
                   fnVars>>


(***************************************************************************)
(* load_original                                                           *)
(***************************************************************************)
\* Result::ok of a parser's result
OkOption(result) == IF result.ok THEN Some(result.infos) ELSE None

\* the filter_map closure of load_original for one path: None when the
\* file cannot be opened, is of an unknown type or does not parse
FileResult(p, file, loc) ==
    IF ~file.exists THEN None
    ELSE With(Content(file.content), LAMBDA content :
        IF EndsWith(FileName(p), <<"xml", "gz">>)
        THEN OkOption(parse_xml(Stream(content, TRUE), loc))
        ELSE IF EndsWith(FileName(p), <<"yml", "gz">>)
        THEN OkOption(parse_yaml(Stream(content, TRUE), loc))
        ELSE IF EndsWith(FileName(p), <<"xml">>)
        THEN OkOption(parse_xml(Stream(content, FALSE), loc))
        ELSE IF EndsWith(FileName(p), <<"yml">>)
        THEN OkOption(parse_yaml(Stream(content, FALSE), loc))
        ELSE None)

\* a load_original that gives up at the first file without an output
RECURSIVE PathResultsOrAbort(_, _, _)
PathResultsOrAbort(ps, disk, loc) ==
    IF ps = <<>> THEN <<>>
    ELSE LET r == FileResult(Head(ps), disk[Head(ps)], loc)
         IN  IF IsSome(r)
             THEN <<Unwrap(r)>> \o PathResultsOrAbort(Tail(ps), disk, loc)
             ELSE <<>>

\* path_results: the outputs of the files that gave one, in the order of
\* path_tags (the paths in ps)
RECURSIVE PathResults(_, _, _)
PathResults(ps, disk, loc) ==
    IF ps = <<>> THEN <<>>
    ELSE LET r == FileResult(Head(ps), disk[Head(ps)], loc)
             rest == PathResults(Tail(ps), disk, loc)
         IN  IF IsSome(r) THEN <<Unwrap(r)>> \o rest ELSE rest

\* the body of the aggregation loop for one (id, info)
AggregateOne(acc, id, info) ==
    With(acc, LAMBDA self :
        [pkgnames |->
            IF IsSome(info.pkgname)
            THEN LET pkgname == Unwrap(info.pkgname)
                     ids == IF pkgname \in DOMAIN self.pkgnames
                            THEN self.pkgnames[pkgname] ELSE {}
                 IN  MapInsert(self.pkgnames, pkgname, ids \cup {id})
            ELSE self.pkgnames,
         infos |-> MapInsert(self.infos, id, info)])

RECURSIVE AggregateFile(_, _)
AggregateFile(acc, file_infos) ==
    IF file_infos = <<>> THEN acc
    ELSE AggregateFile(AggregateOne(acc, Head(file_infos)[1],
                                    Head(file_infos)[2]),
                       Tail(file_infos))

\* "for infos in path_results { for (id, info) in infos { ... } }"
RECURSIVE Aggregate(_, _)
Aggregate(acc, path_results) ==
    IF path_results = <<>> THEN acc
    ELSE Aggregate(AggregateFile(acc, Head(path_results)), Tail(path_results))

\* load_original without pkgnames.clear()
ClearedInfosOnly == [infos |-> EmptyMap, pkgnames |-> pkgnames]

\* load_original without infos.clear()
ClearedPkgnamesOnly == [infos |-> infos, pkgnames |-> EmptyMap]

\* infos.clear(); pkgnames.clear()
Cleared == [infos |-> EmptyMap, pkgnames |-> EmptyMap]

LoadOriginal ==
    /\ At("orig")
    /\ pc' = After("save")
    /\ calls' = Called("load_original")
    /\ loadResult' = KeptResult
    /\ UNCHANGED <<diskVars, path_tags, icons_paths, locale, reloading,
                   iconVars, parVars,
                   fnVars>>
    /\ LET path_results ==
               PathResults(SortedSeq(DOMAIN path_tags), fs, locale)
           agg == With(path_results, LAMBDA pr : Aggregate(Cleared, pr))
       IN  /\ infos' = agg.infos
           /\ pkgnames' = agg.pkgnames

(***************************************************************************)
(* load_original task by task.  The closure of path_tags.par_iter() runs   *)
(* once per path, and inside parse_xml the closure of children.par_iter()  *)
(* runs once per child of the root; the runs finish in any order.  Each    *)
(* collect() returns when all runs of its iterator have finished, with     *)
(* their outputs in the order of the iterator's items.  The aggregation    *)
(* loop follows the outer collect().                                       *)
(***************************************************************************)
FileTask(p) == <<"file", p>>
NodeTask(p, i) == <<"node", p, i>>

\* the stream parse_xml is called with for the path, if it is called
XmlStream(p, file) ==
    IF ~file.exists THEN None
    ELSE IF EndsWith(FileName(p), <<"xml", "gz">>)
    THEN Some(Stream(Content(file.content), TRUE))
    ELSE IF EndsWith(FileName(p), <<"yml", "gz">>) THEN None
    ELSE IF EndsWith(FileName(p), <<"xml">>)
    THEN Some(Stream(Content(file.content), FALSE))
    ELSE None

\* the children parse_xml iterates over: none when it returns early
XmlChildren(p, file) ==
    LET stream == XmlStream(p, file) IN
    IF IsSome(stream) /\ parse_xml(Unwrap(stream), "").ok
    THEN Unwrap(stream).nodes
    ELSE <<>>

FinishedTasks == {finished[k].task : k \in 1..Len(finished)}
OutputOf(task) ==
    finished[CHOOSE k \in 1..Len(finished) : finished[k].task = task].out

\* the outputs of the tasks, those without one left out, in the order the
\* tasks finished
RECURSIVE CollectAsFinished(_, _)
CollectAsFinished(tasks, done) ==
    IF done = <<>> THEN <<>>
    ELSE LET rest == CollectAsFinished(tasks, Tail(done))
         IN  IF Head(done).task \in {tasks[k] : k \in 1..Len(tasks)}
                /\ IsSome(Head(done).out)
             THEN <<Unwrap(Head(done).out)>> \o rest
             ELSE rest

\* collect() into a Vec: the outputs of the tasks, those without one left
\* out, in the order of the items the tasks were started for
RECURSIVE Collect(_, _)
Collect(tasks, done) ==
    IF tasks = <<>> THEN <<>>
    ELSE LET out == OutputOf(Head(tasks))
             rest == Collect(Tail(tasks), done)
         IN  IF IsSome(out) THEN <<Unwrap(out)>> \o rest ELSE rest

\* load_original is called: the maps are cleared and the tasks start
ParBegin ==
    /\ pc = "idle" /\ ~reloading
    /\ finished = <<>>
    /\ pc' = "parse"
    /\ infos' = Cleared.infos
    /\ pkgnames' = Cleared.pkgnames
    /\ UNCHANGED <<diskVars, path_tags, icons_paths, locale, reloading,
                   calls, loadResult, iconVars, parVars,
                   fnVars>>

\* the closure of parse_xml finishes for one child of the root
ParseNode(p, i) ==
    /\ pc = "parse"
    /\ p \in DOMAIN path_tags
    /\ i \in 1..Len(XmlChildren(p, fs[p]))
    /\ NodeTask(p, i) \notin FinishedTasks
    /\ finished' =
         Append(finished,
                [task |-> NodeTask(p, i),
                 out |-> XmlNode(XmlChildren(p, fs[p])[i],
                                 Unwrap(XmlStream(p, fs[p])).origin, locale)])
    /\ UNCHANGED <<diskVars, instVars, ctlVars, iconVars, fnVars>>

\* the closure of load_original finishes for one path: for an XML file
\* that parses, once parse_xml has collected the outputs of its children
ParseFile(p) ==
    /\ pc = "parse"
    /\ p \in DOMAIN path_tags
    /\ FileTask(p) \notin FinishedTasks
    /\ LET children == XmlChildren(p, fs[p])
           tasks == [i \in 1..Len(children) |-> NodeTask(p, i)]
       IN  /\ \A i \in 1..Len(children) : tasks[i] \in FinishedTasks
           /\ finished' =
                Append(finished,
                       [task |-> FileTask(p),
                        out |-> IF children # <<>>
                                THEN Some(Collect(tasks, finished))
                                ELSE FileResult(p, fs[p], locale)])
    /\ UNCHANGED <<diskVars, instVars, ctlVars, iconVars, fnVars>>

\* the outer collect() returns and the aggregation loop runs
AggregateAll ==
    /\ pc = "parse"
    /\ LET paths == SortedSeq(DOMAIN path_tags)
           tasks == [k \in 1..Len(paths) |-> FileTask(paths[k])]
       IN  /\ \A k \in 1..Len(paths) : tasks[k] \in FinishedTasks
           /\ LET agg == With(Collect(tasks, finished),
                             LAMBDA pr : Aggregate(Cleared, pr))
              IN  /\ infos' = agg.infos
                  /\ pkgnames' = agg.pkgnames
    /\ pc' = "idle"
    /\ calls' = <<"load_original">>
    /\ UNCHANGED <<diskVars, path_tags, icons_paths, locale, reloading,
                   loadResult, iconVars, parVars,
                   fnVars>>

(***************************************************************************)
(* save_cache: atomicwrites writes a temporary file in the cache           *)
(* directory and renames it onto the cache path.                          *)
(***************************************************************************)
\* the instance state a save writes
Snapshot ==
    [path_tags |-> path_tags, icons_paths |-> icons_paths, locale |-> locale,
     infos |-> infos, pkgnames |-> pkgnames]

\* save_cache returns (to reload's caller when reload called it)
Returned ==
    /\ pc' = "idle"
    /\ reloading' = FALSE

\* a save that opens the cache path itself and writes into it
SaveBeginInPlace ==
    /\ At("save")
    /\ homeKnown /\ dirExists
    /\ cacheFile' = Partial
    /\ pc' = "write"
    /\ calls' = Called("save_cache")
    /\ loadResult' = KeptResult
    /\ UNCHANGED <<fs, edits, homeKnown, dirExists, staleFiles, tmpFile,
                   saved, instVars, reloading, iconVars, parVars,
                   fnVars>>

\* encode, find the directory, create the temporary file; the first bytes
\* are written
SaveBegin ==
    /\ At("save")
    /\ \/ \* encoding failed, no cache directory known, or the temporary
          \* file could not be created
          /\ Returned
          /\ UNCHANGED tmpFile
       \/ /\ homeKnown /\ dirExists
          /\ tmpFile' = Partial
          /\ pc' = "write"
          /\ UNCHANGED reloading
    /\ calls' = Called("save_cache")
    /\ loadResult' = KeptResult
    /\ UNCHANGED <<fs, edits, homeKnown, dirExists, staleFiles, cacheFile,
                   saved, instVars, iconVars, parVars,
                   fnVars>>

\* write_all goes on: all bytes are written, or the write fails and the
\* temporary file is dropped
SaveWrite ==
    /\ pc = "write"
    /\ \/ /\ tmpFile' = Bitcode(Encode(Snapshot))
          /\ pc' = "rename"
          /\ UNCHANGED reloading
       \/ /\ tmpFile' = NoData
          /\ Returned
    /\ UNCHANGED <<fs, edits, homeKnown, dirExists, staleFiles, cacheFile,
                   saved, instVars, calls, loadResult, iconVars, parVars,
                   fnVars>>

\* the temporary file is renamed onto the cache path, or the rename fails
SaveRename ==
    /\ pc = "rename"
    /\ \/ /\ cacheFile' = tmpFile
          /\ saved' = Some(Snapshot)
       \/ UNCHANGED <<cacheFile, saved>>
    /\ tmpFile' = NoData
    /\ Returned
    /\ UNCHANGED <<fs, edits, homeKnown, dirExists, staleFiles,
                   instVars, calls, loadResult, iconVars, parVars,
                   fnVars>>

(***************************************************************************)
(* reload: clean_cache; if !load_cache { load_original; save_cache }       *)
(***************************************************************************)
Reload ==
    /\ pc = "idle"
    /\ pc' = "clean"
    /\ reloading' = TRUE
    /\ calls' = <<>>
    /\ loadResult' = "none"
    /\ UNCHANGED <<diskVars, instVars, iconVars, parVars,
                   fnVars>>

\* the process dies where it is (calls keeps the place).  The cache
\* directory stays as it is; the temporary file stays behind in a
\* directory of a random name that no later operation reads, so the model
\* forgets it.
Crash ==
    /\ pc \notin {"idle", "crashed"}
    /\ pc' = "crashed"
    /\ reloading' = FALSE
    /\ calls' = <<pc>>
    /\ loadResult' = "none"
    /\ path_tags' = EmptyMap
    /\ icons_paths' = <<>>
    /\ locale' = ""
    /\ infos' = EmptyMap
    /\ pkgnames' = EmptyMap
    /\ tmpFile' = NoData
    /\ UNCHANGED <<fs, edits, homeKnown, dirExists, staleFiles, cacheFile,
                   saved, iconVars, parVars,
                   fnVars>>


(***************************************************************************)
(* icon_path and icon                                                      *)
(***************************************************************************)
\* the display size of stock and generic icons
StockSize == 128

\* widget::icon handles: from_path(path), and from_name(name).size(size)
NoHandle == [kind |-> "none", path |-> <<>>, name |-> "", size |-> 0]
FromPath(path) == [kind |-> "path", path |-> path, name |-> "", size |-> 0]
FromName(name, size) ==
    [kind |-> "name", path |-> <<>>, name |-> name, size |-> size]

\* format!("{}x{}@{}", width, height, scale) / format!("{}x{}", ...)
SizeToken(width, height, scale_opt) ==
    IF IsSome(scale_opt) THEN <<width, height, Unwrap(scale_opt)>>
    ELSE <<width, height>>

\* a path is the sequence of its components.  Path::join(component): a
\* component that is an absolute path replaces the path it is joined to
AbsoluteNames == {"/x.png", "/o"}
IsAbsolute(component) == component \in AbsoluteNames
Join(path, component) ==
    IF IsAbsolute(component) THEN <<component>> ELSE Append(path, component)

\* icons_path.join(origin).join(&size).join(name); the size token starts
\* with a digit and is never absolute
IconFilePath(root, origin, size, name) ==
    Join(Append(Join(<<root>>, origin), size), name)

\* the loop of icon_path over the icon-theme roots: the first root at
\* which the joined path is a file
RECURSIVE FirstFile(_, _, _, _)
FirstFile(roots, origin, size, name) ==
    IF roots = <<>> THEN None
    ELSE IF IconFilePath(Head(roots), origin, size, name) \in icon_files
         THEN Some(IconFilePath(Head(roots), origin, size, name))
         ELSE FirstFile(Tail(roots), origin, size, name)

\* an icon_path that looks under the origin o1 when the record has none,
\* and takes a missing width or height as 64
icon_path_with_defaults(origin_opt, name, width_opt, height_opt, scale_opt) ==
    FirstFile(icons_paths, UnwrapOr(origin_opt, "o1"),
              SizeToken(UnwrapOr(width_opt, 64), UnwrapOr(height_opt, 64),
                        scale_opt),
              name)

icon_path(origin_opt, name, width_opt, height_opt, scale_opt) ==
    IF ~IsSome(origin_opt) \/ ~IsSome(width_opt) \/ ~IsSome(height_opt)
    THEN None
    ELSE FirstFile(icons_paths, Unwrap(origin_opt),
                   SizeToken(Unwrap(width_opt), Unwrap(height_opt), scale_opt),
                   name)

\* a size test that also skips a candidate of the best size found so far
SizeSkipsTies(size, cached_size) == size <= cached_size /\ cached_size # 0

\* whether the Cached arm skips the candidate: "Skip if size is less than
\* cached size"
SizeSkips(size, cached_size) == size < cached_size

\* a loop body that passes over every Stock entry
IconStepCachedOnly(st, origin_opt, info_icon) ==
    IF info_icon.tag = "Cached"
    THEN LET size == Min(UnwrapOr(info_icon.width, 0),
                         UnwrapOr(info_icon.height, 0))
             found == icon_path(origin_opt, info_icon.name, info_icon.width,
                                info_icon.height, info_icon.scale)
         IN  IF SizeSkips(size, st.cached_size) THEN st
             ELSE IF IsSome(found)
             THEN [icon_opt |-> Some(FromPath(Unwrap(found))),
                   cached_size |-> size]
             ELSE st
    ELSE st

\* a loop body whose Stock arm keeps the first stock icon
IconStepFirstStock(st, origin_opt, info_icon) ==
    IF info_icon.tag = "Cached"
    THEN LET size == Min(UnwrapOr(info_icon.width, 0),
                         UnwrapOr(info_icon.height, 0))
             found == icon_path(origin_opt, info_icon.name, info_icon.width,
                                info_icon.height, info_icon.scale)
         IN  IF SizeSkips(size, st.cached_size) THEN st
             ELSE IF IsSome(found)
             THEN [icon_opt |-> Some(FromPath(Unwrap(found))),
                   cached_size |-> size]
             ELSE st
    ELSE IF st.cached_size # 0 \/ IsSome(st.icon_opt) THEN st
    ELSE [icon_opt |-> Some(FromName(info_icon.name, StockSize)),
          cached_size |-> st.cached_size]

\* a loop body whose Stock arm does not look at cached_size
IconStepStockReplaces(st, origin_opt, info_icon) ==
    IF info_icon.tag = "Cached"
    THEN LET size == Min(UnwrapOr(info_icon.width, 0),
                         UnwrapOr(info_icon.height, 0))
             found == icon_path(origin_opt, info_icon.name, info_icon.width,
                                info_icon.height, info_icon.scale)
         IN  IF SizeSkips(size, st.cached_size) THEN st
             ELSE IF IsSome(found)
             THEN [icon_opt |-> Some(FromPath(Unwrap(found))),
                   cached_size |-> size]
             ELSE st
    ELSE [icon_opt |-> Some(FromName(info_icon.name, StockSize)),
          cached_size |-> st.cached_size]

\* one pass of icon()'s loop body over info_icon, from the loop state
\* st = [icon_opt, cached_size]
IconStep(st, origin_opt, info_icon) ==
    IF info_icon.tag = "Cached"
    THEN LET size == Min(UnwrapOr(info_icon.width, 0),
                         UnwrapOr(info_icon.height, 0))
             found == icon_path(origin_opt, info_icon.name, info_icon.width,
                                info_icon.height, info_icon.scale)
         IN  IF SizeSkips(size, st.cached_size) THEN st
             ELSE IF IsSome(found)
             THEN [icon_opt |-> Some(FromPath(Unwrap(found))),
                   cached_size |-> size]
             ELSE st
    ELSE IF st.cached_size # 0 THEN st
    ELSE [icon_opt |-> Some(FromName(info_icon.name, StockSize)),
          cached_size |-> st.cached_size]

\* the loop state of icon() after the first k entries of info.icons
RECURSIVE IconLoop(_, _)
IconLoop(info, k) ==
    IF k = 0 THEN [icon_opt |-> None, cached_size |-> 0]
    ELSE IconStep(IconLoop(info, k - 1), info.origin_opt, info.icons[k])

icon(info) ==
    UnwrapOr(IconLoop(info, Len(info.icons)).icon_opt,
             FromName("package-x-generic", StockSize))

\* the record icon() is called with: the icon entries it may hold
IconChoices ==
    {Cached("a.png", Some(32), Some(32), None),
     Cached("b.png", Some(64), Some(64), None),
     Cached("c.png", Some(64), Some(32), Some(2)),
     Cached("d.png", None, Some(64), None),
     Cached("z.png", Some(0), Some(0), None),
     Stock("s1"), Stock("s2")}

RECURSIVE SeqsUpTo(_, _)
SeqsUpTo(S, n) ==
    IF n = 0 THEN {<<>>}
    ELSE LET shorter == SeqsUpTo(S, n - 1)
         IN  shorter \cup {Append(q, x) : q \in shorter, x \in S}

IconInfo(origin_opt, icons) ==
    [origin_opt |-> origin_opt, name |-> "", summary |-> "",
     pkgname |-> None, icons |-> icons, desktop_ids |-> <<>>]

\* icon files that may exist under the icon-theme roots
IconFileChoices ==
    {<<"icons1", "o1", <<32, 32>>, "a.png">>,
     <<"icons1", "o1", <<64, 64>>, "b.png">>,
     <<"icons2", "o1", <<64, 64>>, "b.png">>,
     <<"icons1", "o1", <<64, 32, 2>>, "c.png">>,
     <<"icons1", "o1", <<0, 0>>, "z.png">>}

\* icon(&info) is called and returns its handle
Icon ==
    /\ icon_handle = NoHandle
    /\ icon_handle' = icon(icon_info)
    /\ UNCHANGED <<diskVars, instVars, ctlVars, icon_info, icon_files,
                   parVars, fnVars>>

(***************************************************************************)
(* parse_xml, parse_yaml and AppInfo::new called on their own.             *)
(***************************************************************************)
NoCall == [fn |-> "none"]

\* the components of the documents: two kinds, two ids
ParseComponents ==
    {Component(kind, id, None, [C |-> id], None, <<>>, <<>>) :
        kind \in {"DesktopApplication", "Font"}, id \in {"app.a", "app.b"}}

XmlNodeChoices ==
    {XmlComponent(c) : c \in ParseComponents} \cup {XmlBadComponent, XmlOther}
XmlStreams ==
    {[gz |-> FALSE, syntax |-> "xml", version |-> version,
      origin |-> Some("o1"), nodes |-> nodes] :
        version \in BOOLEAN, nodes \in SeqsUpTo(XmlNodeChoices, MaxNodes)}

YamlDocChoices ==
    {YamlComponent(c, None, None) : c \in ParseComponents}
    \cup {YamlHeader(Some("o2")), YamlBadDoc, YamlBadComponent}
YamlStreams ==
    {[gz |-> FALSE, syntax |-> "yaml", version |-> FALSE, origin |-> None,
      nodes |-> <<first>> \o docs] :
        first \in YamlDocChoices, docs \in SeqsUpTo(YamlDocChoices, MaxNodes)}

ParseInputs ==
    {[fn |-> "parse_xml", stream |-> stream, locale |-> l] :
        stream \in XmlStreams, l \in Locales}
    \cup {[fn |-> "parse_yaml", stream |-> stream, locale |-> l] :
             stream \in YamlStreams, l \in Locales}

ParseXml ==
    /\ input.fn = "parse_xml"
    /\ output = None
    /\ output' = Some(parse_xml(input.stream, input.locale))
    /\ UNCHANGED <<diskVars, instVars, ctlVars, iconVars, parVars, input>>

ParseYaml ==
    /\ input.fn = "parse_yaml"
    /\ output = None
    /\ output' = Some(parse_yaml(input.stream, input.locale))
    /\ UNCHANGED <<diskVars, instVars, ctlVars, iconVars, parVars, input>>

\* a TranslatableString: a string for each locale of a set, "C" the default
Translation(l) ==
    CASE l = "C" -> "default"
      [] l = "en" -> "english"
      [] l = "de" -> "deutsch"
      [] OTHER -> "other"
Translatables ==
    {[l \in S |-> Translation(l)] : S \in SUBSET {"C", "en", "de"}}
InfoLocales == {"C", "en", "de", "fr"}

InfoInputs ==
    {[fn |-> "AppInfo::new", origin_opt |-> None,
      component |-> Component("DesktopApplication", "app.a", None, name,
                              summary, <<>>, <<>>),
      locale |-> l] :
        name \in Translatables,
        summary \in {None} \cup {Some(t) : t \in Translatables},
        l \in InfoLocales}

NewInfo ==
    /\ input.fn = "AppInfo::new"
    /\ output = None
    /\ output' = Some(AppInfoNew(input.origin_opt, input.component,
                                 input.locale))
    /\ UNCHANGED <<diskVars, instVars, ctlVars, iconVars, parVars, input>>

\* icon_path called on its own: the arguments, the icon-theme roots of the
\* instance, and the files there are
IconPathInputs ==
    {[fn |-> "icon_path", origin_opt |-> origin_opt, name |-> name,
      width_opt |-> width_opt, height_opt |-> height_opt,
      scale_opt |-> scale_opt] :
        origin_opt \in {None, Some("o1"), Some("/o")},
        name \in {"b.png", "/x.png"},
        width_opt \in {None, Some(64)},
        height_opt \in {None, Some(64)},
        scale_opt \in {None, Some(2)}}
IconPathRoots ==
    {<<>>, <<"icons1">>, <<"icons1", "icons2">>, <<"icons2", "icons1">>}
IconPathFiles ==
    {<<"icons1", "o1", <<64, 64>>, "b.png">>,
     <<"icons2", "o1", <<64, 64>>, "b.png">>,
     <<"icons2", "o1", <<64, 64, 2>>, "b.png">>,
     <<"/o", <<64, 64>>, "b.png">>,
     <<"/x.png">>}

IconPath ==
    /\ input.fn = "icon_path"
    /\ output = None
    /\ output' = Some(icon_path(input.origin_opt, input.name, input.width_opt,
                                input.height_opt, input.scale_opt))
    /\ UNCHANGED <<diskVars, instVars, ctlVars, iconVars, parVars, input>>

(***************************************************************************)
(* Specifications.                                                         *)
(***************************************************************************)
\* the content each catalog file starts with
InitContent(p) ==
    CASE p = 1 -> "xmlMain"
      [] p = 2 -> "yamlGz"
      [] OTHER -> "garbage"

InitDisk ==
    /\ fs = [p \in Paths |-> File(InitContent(p), 1)]
    /\ edits = 0
    /\ \/ \* no cache directory yet
          /\ homeKnown \in BOOLEAN
          /\ dirExists = FALSE
          /\ staleFiles = {}
          /\ cacheFile = NoData
       \/ \* a cache directory an older version left, and a cache file that
          \* does not decode
          /\ homeKnown = TRUE
          /\ dirExists = TRUE
          /\ staleFiles = StaleNames
          /\ cacheFile = Garbage
    /\ tmpFile = NoData
    /\ saved = None

InitInstance ==
    /\ path_tags = NewPathTags(AllPaths, fs)
    /\ icons_paths \in IconsPathsChoices
    /\ locale \in Locales
    /\ infos = EmptyMap
    /\ pkgnames = EmptyMap
    /\ pc = "idle"
    /\ reloading = FALSE
    /\ calls = <<>>
    /\ loadResult = "none"

Init ==
    /\ InitDisk
    /\ InitInstance
    /\ icon_info = IconInfo(None, <<>>)
    /\ icon_files = {}
    /\ icon_handle = NoHandle
    /\ finished = <<>>
    /\ input = NoCall
    /\ output = None

Environment == WriteFile \/ RemoveFile

Operation ==
    \/ New
    \/ Reload
    \/ CleanCache
    \/ LoadCache
    \/ LoadOriginal
    \/ SaveBegin
    \/ SaveWrite
    \/ SaveRename

Next == Operation \/ Environment \/ Crash

\* the cache lifecycle, with other programs changing the catalog files and
\* the process dying at any point
Spec == Init /\ [][Next]_vars

\* the cache lifecycle of a process that does not die: a call of reload
\* that has begun goes on
ReloadStep ==
    reloading /\ (CleanCache \/ LoadCache \/ LoadOriginal \/ SaveBegin
                  \/ SaveWrite \/ SaveRename)

NextAlive == Operation \/ Environment

SpecAlive == Init /\ [][NextAlive]_vars /\ WF_vars(ReloadStep)

\* the cache lifecycle as reload drives it, with other programs changing
\* the catalog files up to the moment the first cache file is in place:
\* between new(), load_original and save_cache of the reload that saves.
\* On each path the contents written have sizes of their own, so that a
\* (modified, size) tag stands for one content.
TaggedContents(p) ==
    CASE p = 1 -> {"xmlMain", "xmlDup"}
      [] p = 2 -> {"yamlGz"}
      [] OTHER -> {"garbage"}

WriteEarly ==
    /\ cacheFile.kind # "bitcode"
    /\ edits < MaxEdits
    /\ \E p \in Paths, later \in 0 .. 1 :
         \E c \in TaggedContents(p) :
           /\ File(c, fs[p].modified + later) # fs[p]
           /\ fs' = [fs EXCEPT ![p] = File(c, fs[p].modified + later)]
    /\ edits' = edits + 1
    /\ UNCHANGED <<homeKnown, dirExists, staleFiles, cacheFile, tmpFile,
                   saved, instVars, ctlVars, iconVars, parVars,
                   fnVars>>

NextEarly == New \/ Reload \/ ReloadStep \/ WriteEarly

SpecEarly == Init /\ [][NextEarly]_vars

\* icon resolution on its own: any record, any set of icon files
InitIcon ==
    /\ fs = [p \in Paths |-> File(InitContent(p), 1)]
    /\ edits = 0
    /\ homeKnown = TRUE
    /\ dirExists = TRUE
    /\ staleFiles = {}
    /\ cacheFile = NoData
    /\ tmpFile = NoData
    /\ saved = None
    /\ InitInstance
    /\ locale = "en"
    /\ \E origin_opt \in {None, Some("o1")},
          icons \in SeqsUpTo(IconChoices, MaxIcons) :
         icon_info = IconInfo(origin_opt, icons)
    /\ icon_files \in SUBSET IconFileChoices
    /\ icon_handle = NoHandle
    /\ finished = <<>>
    /\ input = NoCall
    /\ output = None

NextIcon == Icon

SpecIcon == InitIcon /\ [][NextIcon]_vars

\* load_original on its own, its parse tasks finishing in any order
InitPar ==
    /\ \E content \in [Paths -> {"xmlMain", "xmlDup", "yamlGz"}] :
         /\ \A p \in Paths : content[p] \in PathContents(p) \cup {"xmlDup"}
         /\ fs = [p \in Paths |-> File(content[p], 1)]
    /\ edits = 0
    /\ homeKnown = TRUE
    /\ dirExists = FALSE
    /\ staleFiles = {}
    /\ cacheFile = NoData
    /\ tmpFile = NoData
    /\ saved = None
    /\ InitInstance
    /\ icon_info = IconInfo(None, <<>>)
    /\ icon_files = {}
    /\ icon_handle = NoHandle
    /\ finished = <<>>
    /\ input = NoCall
    /\ output = None

NextPar ==
    \/ ParBegin
    \/ \E p \in Paths : \E i \in 1..Len(XmlChildren(p, fs[p])) : ParseNode(p, i)
    \/ \E p \in Paths : ParseFile(p)
    \/ AggregateAll

SpecPar == InitPar /\ [][NextPar]_vars

\* the cache lifecycle of instances built with different icon-theme roots,
\* the catalog files left alone
NextRoots ==
    \/ NewRoots
    \/ Reload
    \/ CleanCache
    \/ LoadCache
    \/ LoadOriginal
    \/ SaveBegin
    \/ SaveWrite
    \/ SaveRename

SpecRoots == Init /\ [][NextRoots]_vars

\* the constructor on its own: no instance yet, any catalog files (absent,
\* without readable metadata, or modified before or after the Unix epoch),
\* any list of paths
InitNew ==
    /\ fs \in [Paths -> {NoFile, NoMetadata(File("garbage", 1))}
                        \cup {File(c, m) : c \in {"xmlMain", "garbage"},
                                           m \in {-1, 1}}]
    /\ edits = 0
    /\ homeKnown = TRUE
    /\ dirExists = FALSE
    /\ staleFiles = {}
    /\ cacheFile = NoData
    /\ tmpFile = NoData
    /\ saved = None
    /\ path_tags = EmptyMap
    /\ icons_paths = <<>>
    /\ locale = ""
    /\ infos = EmptyMap
    /\ pkgnames = EmptyMap
    /\ pc = "crashed"
    /\ reloading = FALSE
    /\ calls = <<>>
    /\ loadResult = "none"
    /\ icon_info = IconInfo(None, <<>>)
    /\ icon_files = {}
    /\ icon_handle = NoHandle
    /\ finished = <<>>
    /\ input = NoCall
    /\ output = None

NextNew == NewAny

SpecNew == InitNew /\ [][NextNew]_vars


\* a function called on its own: no instance, the arguments chosen
InitCall(inputs) ==
    /\ fs = [p \in Paths |-> File(InitContent(p), 1)]
    /\ edits = 0
    /\ homeKnown = TRUE
    /\ dirExists = FALSE
    /\ staleFiles = {}
    /\ cacheFile = NoData
    /\ tmpFile = NoData
    /\ saved = None
    /\ path_tags = EmptyMap
    /\ icons_paths = <<>>
    /\ locale = ""
    /\ infos = EmptyMap
    /\ pkgnames = EmptyMap
    /\ pc = "crashed"
    /\ reloading = FALSE
    /\ calls = <<>>
    /\ loadResult = "none"
    /\ icon_info = IconInfo(None, <<>>)
    /\ icon_files = {}
    /\ icon_handle = NoHandle
    /\ finished = <<>>
    /\ input \in inputs
    /\ output = None

\* the parsers on their own: any document
InitParse == InitCall(ParseInputs)
NextParse == ParseXml \/ ParseYaml
SpecParse == InitParse /\ [][NextParse]_vars

\* AppInfo::new on its own: any translations, any locale
InitInfo == InitCall(InfoInputs)
NextInfo == NewInfo
SpecInfo == InitInfo /\ [][NextInfo]_vars

\* icon_path on its own: any arguments, roots and files
InitIconPath ==
    /\ fs = [p \in Paths |-> File(InitContent(p), 1)]
    /\ edits = 0
    /\ homeKnown = TRUE
    /\ dirExists = FALSE
    /\ staleFiles = {}
    /\ cacheFile = NoData
    /\ tmpFile = NoData
    /\ saved = None
    /\ path_tags = NewPathTags(AllPaths, fs)
    /\ icons_paths \in IconPathRoots
    /\ locale = "en"
    /\ infos = EmptyMap
    /\ pkgnames = EmptyMap
    /\ pc = "idle"
    /\ reloading = FALSE
    /\ calls = <<>>
    /\ loadResult = "none"
    /\ icon_info = IconInfo(None, <<>>)
    /\ icon_files \in SUBSET IconPathFiles
    /\ icon_handle = NoHandle
    /\ finished = <<>>
    /\ input \in IconPathInputs
    /\ output = None
NextIconPath == IconPath
SpecIconPath == InitIconPath /\ [][NextIconPath]_vars


(***************************************************************************)
(* Properties.                                                             *)
(***************************************************************************)
\* reload has returned: the instance is idle and calls holds what the
\* reload called
Done == pc = "idle" /\ ~reloading /\ calls # <<>>

ReloadLoaded == <<"clean_cache", "load_cache">>
ReloadRebuilt == <<"clean_cache", "load_cache", "load_original", "save_cache">>

\* what the parse stage of load_original gives on the files as they are
\* now: the (id, info) pairs of all files, in file-processing order
RECURSIVE Flatten(_)
Flatten(qs) == IF qs = <<>> THEN <<>> ELSE Head(qs) \o Flatten(Tail(qs))

ParsedNow ==
    Flatten(PathResults(SortedSeq(DOMAIN path_tags), fs, locale))

IdsOf(items) == {items[k][1] : k \in 1 .. Len(items)}
\* the first / the last record of the sequence with this identifier
FirstOf(items, id) ==
    items[CHOOSE k \in 1 .. Len(items) :
            items[k][1] = id /\ \A j \in 1 .. k - 1 : items[j][1] # id][2]
LastOf(items, id) ==
    items[CHOOSE k \in 1 .. Len(items) :
            items[k][1] = id /\ \A j \in k + 1 .. Len(items) : items[j][1] # id][2]

\* C1: Duplicate policy.  Whenever load_original has run, records holds
\* one Record for every identifier the parsers gave, and for an identifier
\* that occurs more than once it is the first one in file-processing
\* order: a later Record never overwrites an earlier one.
C1_FirstRecordWins ==
    [][LoadOriginal =>
         /\ DOMAIN infos' = IdsOf(ParsedNow)
         /\ \A id \in IdsOf(ParsedNow) : infos'[id] = FirstOf(ParsedNow, id)]_vars

\* C1, as the code has it: the last Record of an identifier stays, a later
\* Record overwrites an earlier one
C1_LastRecordStays ==
    [][LoadOriginal =>
         /\ DOMAIN infos' = IdsOf(ParsedNow)
         /\ \A id \in IdsOf(ParsedNow) : infos'[id] = LastOf(ParsedNow, id)]_vars

\* load_original has run over two files that both give app.a, and the
\* record kept is the one of the second file (b.yml.gz)
C1_Witness ==
    /\ reloading /\ pc = "save" /\ edits = 0
    /\ "app.a" \in DOMAIN infos
    /\ infos["app.a"].origin_opt = Some("o2")

\* C2: Package-index invariant.  In every reachable state every
\* identifier in a value set of pkgnames is a key of infos.
C2_PackageIndexInvariant ==
    \A pkgname \in DOMAIN pkgnames : pkgnames[pkgname] \subseteq DOMAIN infos

\* a package index with entries, adopted from the cache file
C2_Witness ==
    /\ loadResult = "loaded"
    /\ \E pkgname \in DOMAIN pkgnames : pkgnames[pkgname] # {}


\* load_cache finds the cache directory and the file holds a complete
\* encoding; Decoded is what bitcode::decode gives for it
CacheDecodes == homeKnown /\ cacheFile.kind = "bitcode"
Decoded == Decode(Unwrap(cacheFile.data))

\* two fingerprint registries differ: a path added, a path removed, or a
\* path whose (modified, size) tag differs
RegistryDiffers(r1, r2) ==
    \/ DOMAIN r1 # DOMAIN r2
    \/ \E p \in DOMAIN r1 \cap DOMAIN r2 : r1[p] # r2[p]

\* load_cache returns false: infos and pkgnames stay, and reload goes on to
\* load_original
ReportsInvalid ==
    /\ loadResult' # "loaded"
    /\ UNCHANGED <<infos, pkgnames>>
    /\ reloading => (reloading' /\ pc' = "orig")

\* the calls of a reload whose load_cache returned false, in their order,
\* at the place the reload is at
RebuildOrder ==
    /\ (reloading /\ pc = "orig") => calls = <<"clean_cache", "load_cache">>
    /\ (reloading /\ pc = "save") =>
          calls = <<"clean_cache", "load_cache", "load_original">>
    /\ (reloading /\ pc \in {"write", "rename"}) => calls = ReloadRebuilt
    /\ Done => calls = ReloadRebuilt

\* C3: Staleness detection, invalid case.  If the cache file decodes but
\* its fingerprint registry differs from the current one (a path added,
\* removed, or with another tag), load_cache reports invalid, and a reload
\* then calls load_original and after it save_cache, in that order.
C3_StaleRegistryRebuilds ==
    [][/\ (LoadCache /\ CacheDecodes
             /\ RegistryDiffers(Decoded.path_tags, path_tags))
          => ReportsInvalid
       /\ loadResult = "tags" => RebuildOrder]_vars

\* a reload has returned whose load_cache found another registry in the
\* cache file, after load_original and save_cache
C3_Witness ==
    /\ Done
    /\ loadResult = "tags"
    /\ calls = ReloadRebuilt

\* C4: Staleness detection, valid case.  If the cache file decodes and
\* its fingerprint registry and locale equal the current ones, load_cache
\* reports valid, infos and pkgnames become exactly the decoded ones, and
\* a reload calls neither load_original nor save_cache.
C4_FreshCacheIsAdopted ==
    [][/\ (LoadCache /\ CacheDecodes /\ loadResult' # "unreadable"
             /\ ~RegistryDiffers(Decoded.path_tags, path_tags)
             /\ Decoded.locale = locale)
          => /\ loadResult' = "loaded"
             /\ infos' = Decoded.infos
             /\ pkgnames' = Decoded.pkgnames
             /\ pc' = "idle" /\ ~reloading'
             /\ reloading => calls' = ReloadLoaded
       /\ (Done /\ loadResult = "loaded") => calls = ReloadLoaded]_vars

\* a reload has returned after clean_cache and load_cache only, with the
\* records and the package index of the cache file
C4_Witness ==
    /\ Done
    /\ loadResult = "loaded"
    /\ calls = ReloadLoaded
    /\ infos # EmptyMap
    /\ pkgnames # EmptyMap

\* C5: Locale invalidation.  If the decoded cache's locale differs from
\* the instance's locale, load_cache reports invalid even when the
\* fingerprint registries are equal, and a reload rebuilds.
C5_LocaleInvalidates ==
    [][/\ (LoadCache /\ CacheDecodes /\ Decoded.locale # locale)
          => ReportsInvalid
       /\ loadResult = "locale" => RebuildOrder]_vars

\* a reload has rebuilt because of the locale alone: the registries were
\* equal
C5_Witness ==
    /\ Done
    /\ loadResult = "locale"
    /\ calls = ReloadRebuilt

\* C6: Atomic save.  At every point of a save_cache, a crash at any step
\* included, the cache path does not exist, holds the complete previous
\* content, or holds the complete new encoding; load_cache never reads a
\* partially written file.
C6_AtomicSave ==
    [][/\ cacheFile.kind # "partial"
       /\ cacheFile'.kind # "partial"
       /\ cacheFile' # cacheFile => cacheFile' = Bitcode(Encode(Snapshot))]_vars

\* the process died while the temporary file was half written, and the
\* cache path holds the complete encoding of an earlier save
C6_Witness ==
    /\ pc = "crashed"
    /\ calls = <<"write">>
    /\ cacheFile.kind = "bitcode"

\* C7: Cache round-trip.  After save_cache succeeded on a snapshot S, a
\* load_cache by an instance whose fingerprint registry and locale equal
\* those of S returns true and leaves infos and pkgnames equal to those of
\* S.
C7_CacheRoundTrip ==
    [][(LoadCache /\ IsSome(saved) /\ loadResult' # "unreadable"
          /\ path_tags = Unwrap(saved).path_tags
          /\ locale = Unwrap(saved).locale)
       => /\ loadResult' = "loaded"
          /\ infos' = Unwrap(saved).infos
          /\ pkgnames' = Unwrap(saved).pkgnames]_vars

\* load_cache has read back a saved snapshot that holds records and a
\* package index
C7_Witness ==
    /\ loadResult = "loaded"
    /\ IsSome(saved)
    /\ infos = Unwrap(saved).infos
    /\ pkgnames = Unwrap(saved).pkgnames
    /\ \E pkgname \in DOMAIN pkgnames : pkgnames[pkgname] # {}
    /\ "app.c" \in DOMAIN infos


\* reload has returned in one of its two terminal states: Loaded, with the
\* records of the cache file, or Rebuilt, after load_original and save_cache
Loaded ==
    /\ calls = ReloadLoaded
    /\ loadResult = "loaded"
    /\ infos = Decoded.infos
Rebuilt ==
    /\ calls = ReloadRebuilt
    /\ loadResult \in {"nodir", "unreadable", "undecodable", "tags", "locale"}

IsXml(p) == EndsWith(FileName(p), <<"xml">>) \/ EndsWith(FileName(p), <<"xml", "gz">>)
IsYaml(p) == EndsWith(FileName(p), <<"yml">>) \/ EndsWith(FileName(p), <<"yml", "gz">>)
IsGz(p) == EndsWith(FileName(p), <<"gz">>)
FileFails(p) ==
    \/ ~fs[p].exists
    \/ ~IsXml(p) /\ ~IsYaml(p)
    \/ Content(fs[p].content).gz # IsGz(p)
    \/ IsXml(p) /\ (Content(fs[p].content).syntax # "xml"
                    \/ ~Content(fs[p].content).version)
    \/ IsYaml(p) /\ Content(fs[p].content).syntax # "yaml"

\* the parser outputs of the paths in ps, in their order
RECURSIVE OutputsOf(_)
OutputsOf(ps) ==
    IF ps = <<>> THEN <<>>
    ELSE <<With(Content(fs[Head(ps)].content), LAMBDA content :
                 IF IsXml(Head(ps)) THEN parse_xml(content, locale).infos
                 ELSE parse_yaml(content, locale).infos)>>
         \o OutputsOf(Tail(ps))

OtherFiles == {p \in DOMAIN path_tags : ~FileFails(p)}
\* the aggregation of the outputs of the files that do not fail
OthersAggregated ==
    With(OutputsOf(SortedSeq(OtherFiles)),
         LAMBDA outputs : Aggregate(Cleared, outputs))

\* C9: Per-file failure isolation.  A registered file that cannot be
\* opened, decompressed or parsed contributes no record and changes
\* nothing else: after load_original, infos and pkgnames are the
\* aggregation of the outputs of all the other files.
C9_FailureIsolation ==
    [][LoadOriginal =>
         [infos |-> infos', pkgnames |-> pkgnames'] = OthersAggregated]_vars

\* load_original has run over a.xml holding no document and b.yml.gz, and
\* the records are those of b.yml.gz
C9_Witness ==
    /\ reloading /\ pc = "save"
    /\ 1 \in DOMAIN path_tags /\ 2 \in DOMAIN path_tags
    /\ fs[1].exists /\ fs[1].content = "garbage"
    /\ FileFails(1) /\ ~FileFails(2)
    /\ DOMAIN infos = {"app.a", "app.c"}

\* the entries of the record icon() was called with
IconAt(k) == icon_info.icons[k]
IconSizeAt(k) == Min(UnwrapOr(IconAt(k).width, 0), UnwrapOr(IconAt(k).height, 0))
IconPathAt(k) ==
    icon_path(icon_info.origin_opt, IconAt(k).name, IconAt(k).width,
              IconAt(k).height, IconAt(k).scale)
\* the Cached entries that resolve to an existing file, the largest of
\* their sizes, and the entries of that size
Resolving ==
    {k \in 1 .. Len(icon_info.icons) :
        IconAt(k).tag = "Cached" /\ IsSome(IconPathAt(k))}
LargestSize ==
    CHOOSE m \in {IconSizeAt(k) : k \in Resolving} :
        \A k \in Resolving : IconSizeAt(k) <= m
Largest == {k \in Resolving : IconSizeAt(k) = LargestSize}
FirstIn(S) == CHOOSE k \in S : \A j \in S : k <= j
LastIn(S) == CHOOSE k \in S : \A j \in S : j <= k

\* a Cached candidate is skipped only when its size is strictly less than
\* the best size found so far: one that is not less and resolves becomes
\* the best match
SkippedOnlyWhenLess ==
    \A k \in 1 .. Len(icon_info.icons) :
        IconAt(k).tag = "Cached" =>
           LET before == IconLoop(icon_info, k - 1)
               after == IconLoop(icon_info, k)
           IN  IF IconSizeAt(k) < before.cached_size THEN after = before
               ELSE k \in Resolving =>
                      after.icon_opt = Some(FromPath(Unwrap(IconPathAt(k))))

\* C10: Icon tie-break.  In icon(), a Cached candidate is skipped only
\* when its min(width, height) is strictly less than the best size found
\* so far, and when two Cached entries of equal min(width, height) both
\* resolve to existing files, the first one in the record's icon list is
\* the result (first-seen wins ties).
C10_FirstSeenWinsTies ==
    (icon_handle # NoHandle) =>
       /\ SkippedOnlyWhenLess
       /\ (Resolving # {} /\ LargestSize # 0) =>
             icon_handle = FromPath(Unwrap(IconPathAt(FirstIn(Largest))))

\* C10, amended: a Cached candidate is skipped only when its size is
\* strictly less than the best size found so far, and when two Cached
\* entries of equal size both resolve, the later one replaces the earlier:
\* of the resolving entries of the largest size (when it is not 0) the
\* last one in the list is the result (last-seen wins ties).
C10_LastSeenWinsTies ==
    (icon_handle # NoHandle) =>
       /\ SkippedOnlyWhenLess
       /\ (Resolving # {} /\ LargestSize # 0) =>
             icon_handle = FromPath(Unwrap(IconPathAt(LastIn(Largest))))

\* icon() has returned for a record with two resolving Cached entries of
\* the largest size, and the result is the file of the later one
C10_Witness ==
    /\ icon_handle # NoHandle
    /\ Resolving # {}
    /\ LargestSize # 0
    /\ FirstIn(Largest) # LastIn(Largest)
    /\ IconPathAt(FirstIn(Largest)) # IconPathAt(LastIn(Largest))
    /\ icon_handle = FromPath(Unwrap(IconPathAt(LastIn(Largest))))


\* the Stock entries of the record, and whether some Cached entry before
\* entry k resolves
StockEntries == {k \in 1 .. Len(icon_info.icons) : IconAt(k).tag = "Stock"}
ResolvedBefore(k) == \E i \in Resolving : i < k
\* the pass of icon()'s loop over entry k changes nothing
SkippedAt(k) == IconLoop(icon_info, k) = IconLoop(icon_info, k - 1)

\* C11: Stock never replaces cached.  In icon(), once any Cached entry has
\* resolved to an existing file, every later Stock entry is skipped, so
\* the result is never a stock icon when an earlier Cached entry resolved,
\* for all widths and heights, 0 included.
C11_StockNeverReplacesCached ==
    (icon_handle # NoHandle) =>
       /\ \A k \in StockEntries : ResolvedBefore(k) => SkippedAt(k)
       /\ Resolving # {} => icon_handle.kind = "path"

\* C11, as the code has it: a Stock entry is skipped once a Cached entry
\* whose min(width, height) is not 0 has resolved
C11_StockSkippedAfterSizedCached ==
    (icon_handle # NoHandle) =>
       /\ \A k \in StockEntries :
             (\E i \in Resolving : i < k /\ IconSizeAt(i) # 0) => SkippedAt(k)
       /\ (Resolving # {} /\ LargestSize # 0) => icon_handle.kind = "path"

\* icon() has returned a stock icon although a Cached entry of size 0
\* before it resolved
C11_Witness ==
    /\ icon_handle # NoHandle
    /\ icon_handle.kind = "name"
    /\ \E k \in StockEntries :
          /\ ResolvedBefore(k)
          /\ ~SkippedAt(k)
          /\ icon_handle = FromName(IconAt(k).name, StockSize)


\* C12: Best cached match wins regardless of position.  For a record with
\* an origin, if at least one Cached entry with positive width and height
\* resolves to an existing file, icon() returns the file of a resolving
\* Cached entry whose min(width, height) is the maximum over all resolving
\* Cached entries, whatever unresolved Cached entries precede it and
\* wherever Stock entries are in the list.
C12_BestCachedMatchWins ==
    (icon_handle # NoHandle /\ \E k \in Resolving : IconSizeAt(k) > 0) =>
       \E k \in Largest : icon_handle = FromPath(Unwrap(IconPathAt(k)))

\* the spec's example: an unresolved Cached entry, then a larger one that
\* resolves, then a Stock entry; icon() has returned the file of the
\* second entry
C12_Witness ==
    /\ icon_handle # NoHandle
    /\ Len(icon_info.icons) = 3
    /\ IconAt(1).tag = "Cached" /\ 1 \notin Resolving
    /\ 2 \in Resolving /\ IconSizeAt(2) > IconSizeAt(1)
    /\ IconAt(3).tag = "Stock"
    /\ icon_handle = FromPath(Unwrap(IconPathAt(2)))


\* the generic package icon
GenericIcon == FromName("package-x-generic", StockSize)

C14_StaleFormatCleanup ==
    [][CleanCacheCompletes =>
         /\ dirExists'
         /\ DirEntries' \subseteq {CacheFilename}
         /\ cacheFile' = cacheFile]_vars

\* clean_cache has removed the file an older version left and kept the
\* versioned cache file
C14_Witness ==
    /\ calls = <<"clean_cache">>
    /\ dirExists
    /\ staleFiles = {}
    /\ DirEntries = {CacheFilename}
    /\ cacheFile = Garbage

(***************************************************************************)
(* C15.  When new() is given a path whose canonicalization, metadata read  *)
(* or modification-time conversion fails, that path is the only one        *)
(* missing from the path-tag map: every other path of the list is present  *)
(* under its canonical path with the modification time and size of its     *)
(* file, and the build completes with an empty registry.                   *)
(***************************************************************************)
Registered(paths) ==
    {Canonicalize(paths[i]) :
        i \in {j \in 1..Len(paths) : ~PathFails(paths[j], fs)}}

C15_FailingPathIsSkipped ==
    [][\A paths \in PathLists :
         NewFrom(paths) =>
           /\ DOMAIN path_tags' = Registered(paths)
           /\ \A c \in Registered(paths) :
                path_tags'[c] = [modified |-> fs[c].modified,
                                 size |-> SizeOf(fs[c].content)]
           /\ pc' = "idle"
           /\ infos' = EmptyMap
           /\ pkgnames' = EmptyMap]_vars

\* path 1 was modified before the epoch and path 2 was registered
C15_Witness ==
    /\ pc = "idle"
    /\ fs[1].exists /\ fs[1].metadata /\ fs[1].modified < 0
    /\ fs[2].exists /\ fs[2].metadata /\ fs[2].modified >= 0
    /\ DOMAIN path_tags = {2}
    /\ path_tags[2] = Tag(fs[2])

(***************************************************************************)
(* C16.  The aggregation into infos and pkgnames starts only after every   *)
(* parse task, per file and per child of an XML root, has finished, and    *)
(* the maps it builds, the surviving duplicate included, are those of a    *)
(* load_original that parses the files one after the other in the order    *)
(* of path_tags, whatever the order the tasks finished in.                 *)
(***************************************************************************)
AllTasks ==
    {FileTask(p) : p \in DOMAIN path_tags}
    \cup UNION {{NodeTask(p, i) : i \in 1..Len(XmlChildren(p, fs[p]))} :
                  p \in DOMAIN path_tags}
Aggregated == pc = "idle" /\ calls = <<"load_original">>
Sequential ==
    Aggregate(Cleared, PathResults(SortedSeq(DOMAIN path_tags), fs, locale))
PositionOf(task) == CHOOSE k \in 1..Len(finished) : finished[k].task = task

C16_SchedulingIndependence ==
    /\ (pc = "parse" /\ FinishedTasks # AllTasks) =>
          (infos = EmptyMap /\ pkgnames = EmptyMap /\ ~ENABLED AggregateAll)
    /\ Aggregated =>
          /\ FinishedTasks = AllTasks
          /\ infos = Sequential.infos
          /\ pkgnames = Sequential.pkgnames

\* the second of two records of one id in an XML file was parsed first, the
\* second file finished first, and the id is in a third record there
C16_Witness ==
    /\ Aggregated
    /\ fs[1].content = "xmlDup" /\ fs[2].content = "yamlGz"
    /\ DOMAIN path_tags = {1, 2}
    /\ PositionOf(NodeTask(1, 2)) < PositionOf(NodeTask(1, 1))
    /\ PositionOf(FileTask(2)) < PositionOf(FileTask(1))
    /\ "app.a" \in DOMAIN infos

(***************************************************************************)
(* C17.  A cache file whose stored icon-theme roots differ from those of   *)
(* the instance, while its fingerprint registry and its locale are those   *)
(* of the instance, is accepted by load_cache whenever the file is read:   *)
(* the records and the package index are taken from it, and the instance   *)
(* keeps its own icon-theme roots.                                         *)
(***************************************************************************)
OtherRoots ==
    /\ CacheDecodes
    /\ Decoded.path_tags = path_tags
    /\ Decoded.locale = locale
    /\ Decoded.icons_paths # icons_paths

C17_RootsDoNotInvalidate ==
    [][(LoadCache /\ OtherRoots /\ loadResult' # "unreadable") =>
         /\ loadResult' = "loaded"
         /\ infos' = Decoded.infos
         /\ pkgnames' = Decoded.pkgnames
         /\ icons_paths' = icons_paths
         /\ icons_paths' # Decoded.icons_paths]_vars

\* a reload ended with the cache file of an instance with other roots
C17_Witness ==
    /\ Loaded
    /\ OtherRoots
    /\ infos # EmptyMap
    /\ pkgnames # EmptyMap

(***************************************************************************)
(* C18.  For parse_xml and for parse_yaml, when the parser returns a list, *)
(* the list holds one record for each decoded component of kind desktop    *)
(* application, in the order of the document, and nothing else; and it is  *)
(* the list the parser returns for the document without the decoded        *)
(* components of other kinds.                                              *)
(***************************************************************************)
ParseOf(call) ==
    IF call.fn = "parse_xml" THEN parse_xml(call.stream, call.locale)
    ELSE parse_yaml(call.stream, call.locale)

\* the i-th node of the document is decoded to a component
NodeDecoded(call, i) ==
    LET node == call.stream.nodes[i] IN
    IF call.fn = "parse_xml" THEN node.elem = "component" /\ node.decodes
    ELSE i > 1 /\ node.valid /\ node.decodes

KindAt(call, i) == Unwrap(call.stream.nodes[i].comp).kind

DesktopNodes(call) ==
    {i \in 1..Len(call.stream.nodes) :
        NodeDecoded(call, i) /\ KindAt(call, i) = "DesktopApplication"}
OtherKindNodes(call) ==
    {i \in 1..Len(call.stream.nodes) :
        NodeDecoded(call, i) /\ KindAt(call, i) # "DesktopApplication"}

\* the origin the records of the document get
OriginOf(call) ==
    IF call.fn = "parse_xml" THEN call.stream.origin
    ELSE IF call.stream.nodes[1].valid THEN call.stream.nodes[1].Origin
    ELSE None

\* the record of the i-th node
RecordOf(call, i) ==
    LET component == Unwrap(call.stream.nodes[i].comp)
    IN  <<component.id, AppInfoNew(OriginOf(call), component, call.locale)>>

WithoutOtherKinds(call) ==
    LET kept == SortedSeq((1..Len(call.stream.nodes)) \ OtherKindNodes(call))
    IN  [call EXCEPT !.stream.nodes =
            [k \in 1..Len(kept) |-> call.stream.nodes[kept[k]]]]

ParserReturned ==
    input.fn \in {"parse_xml", "parse_yaml"} /\ IsSome(output)
    /\ Unwrap(output).ok

C18_KindFiltering ==
    ParserReturned =>
        LET desktop == SortedSeq(DesktopNodes(input))
        IN  /\ Unwrap(output).infos =
                 [k \in 1..Len(desktop) |-> RecordOf(input, desktop[k])]
            /\ Unwrap(output) = ParseOf(WithoutOtherKinds(input))

\* a font between two desktop applications, in XML
C18_Witness ==
    /\ ParserReturned
    /\ input.fn = "parse_xml"
    /\ DesktopNodes(input) = {1, 3}
    /\ OtherKindNodes(input) = {2}
    /\ Len(Unwrap(output).infos) = 2

(***************************************************************************)
(* C19.  The name of the record AppInfo::new builds is the component's     *)
(* string for the requested locale when there is one, otherwise its        *)
(* default string when there is one, otherwise the empty string; the       *)
(* summary likewise, and empty when the component has no summary.  The     *)
(* construction returns a record for every component and locale.           *)
(***************************************************************************)
InfoReturned == input.fn = "AppInfo::new" /\ IsSome(output)

Fallback(translatable, l) ==
    IF l \in DOMAIN translatable THEN translatable[l]
    ELSE IF "C" \in DOMAIN translatable THEN translatable["C"]
    ELSE ""

C19_LocaleFallback ==
    /\ (input.fn = "AppInfo::new" /\ output = None) => ENABLED NewInfo
    /\ InfoReturned =>
          /\ Unwrap(output).name =
                Fallback(input.component.name, input.locale)
          /\ Unwrap(output).summary =
                IF IsSome(input.component.summary)
                THEN Fallback(Unwrap(input.component.summary), input.locale)
                ELSE ""

\* no string for the requested locale: the name is the default string and
\* the summary, which has no default either, is empty
C19_Witness ==
    /\ InfoReturned
    /\ input.locale = "fr"
    /\ DOMAIN input.component.name = {"C", "de"}
    /\ IsSome(input.component.summary)
    /\ DOMAIN Unwrap(input.component.summary) = {"en"}
    /\ Unwrap(output).name = "default"
    /\ Unwrap(output).summary = ""

(***************************************************************************)
(* C20.  When clean_cache cannot determine, create or list the cache       *)
(* directory it returns without deleting any file, and the reload that     *)
(* called it goes on with load_cache: every reload that has come to        *)
(* load_cache returns, having called load_cache only when that adopted     *)
(* the cache, and load_cache, load_original and save_cache in this order   *)
(* otherwise.                                                              *)
(***************************************************************************)
C20_CleanupFailureDoesNotBlock ==
    /\ [][CleanCacheFails =>
            /\ staleFiles' = staleFiles
            /\ cacheFile' = cacheFile
            /\ reloading =>
                  /\ reloading'
                  /\ pc' = "load"
                  /\ calls' = <<"clean_cache">>]_vars
    /\ (reloading /\ pc = "load") ~> (Done /\ (Loaded \/ Rebuilt))

\* no cache directory can be determined, and the reload has rebuilt
C20_Witness ==
    /\ ~homeKnown
    /\ Done
    /\ calls = ReloadRebuilt
    /\ loadResult = "nodir"
    /\ infos # EmptyMap

(***************************************************************************)
(* C21.  After load_original, infos holds exactly the identifiers the      *)
(* parse pass gave, each with a record of that pass, and pkgnames holds    *)
(* exactly the package names of the records of that pass, each with the    *)
(* identifiers of the records of that pass that carry it: nothing that     *)
(* was in the maps before the call is left unless the pass gives it.       *)
(***************************************************************************)
RecordsOf(items, id) == {items[k][2] : k \in {j \in 1..Len(items) : items[j][1] = id}}
IdsWithPkgname(items, pkgname) ==
    {items[k][1] : k \in {j \in 1..Len(items) :
                             items[j][2].pkgname = Some(pkgname)}}
PkgnamesOf(items) ==
    {Unwrap(items[k][2].pkgname) :
        k \in {j \in 1..Len(items) : IsSome(items[j][2].pkgname)}}

OnlyThisPass(parsed) ==
    /\ DOMAIN infos' = IdsOf(parsed)
    /\ \A id \in IdsOf(parsed) : infos'[id] \in RecordsOf(parsed, id)
    /\ DOMAIN pkgnames' = PkgnamesOf(parsed)
    /\ \A pkgname \in PkgnamesOf(parsed) :
         pkgnames'[pkgname] = IdsWithPkgname(parsed, pkgname)

C21_WholesaleRefresh ==
    [][LoadOriginal => With(ParsedNow, LAMBDA parsed : OnlyThisPass(parsed))]_vars

\* the instance had saved a record of app.b under pkg.p; the catalog file
\* was replaced by one without app.b and load_original has run again
C21_Witness ==
    /\ IsSome(saved)
    /\ "app.b" \in DOMAIN Unwrap(saved).infos
    /\ "app.b" \in Unwrap(saved).pkgnames["pkg.p"]
    /\ Unwrap(saved).path_tags = path_tags
    /\ fs[1].content = "xmlDup"
    /\ "app.a" \in DOMAIN infos
    /\ "app.b" \notin DOMAIN infos
    /\ "app.b" \notin pkgnames["pkg.p"]

(***************************************************************************)
(* C22.  icon_path returns root/origin/size-token/name for the first       *)
(* icon-theme root, in configured order, at which that path is an          *)
(* existing regular file, the size token being width x height @ scale      *)
(* when a scale is given and width x height otherwise; and nothing when    *)
(* no root has such a file.                                                *)
(***************************************************************************)
IconPathReturned == input.fn = "icon_path" /\ IsSome(output)

\* the path root/origin/size-token/name, component by component
Under(root, call) ==
    <<root, Unwrap(call.origin_opt),
      IF IsSome(call.scale_opt)
      THEN <<Unwrap(call.width_opt), Unwrap(call.height_opt),
             Unwrap(call.scale_opt)>>
      ELSE <<Unwrap(call.width_opt), Unwrap(call.height_opt)>>,
      call.name>>

\* the roots, by their place in icons_paths, that have the file
RootsWithFile(call) ==
    IF IsSome(call.origin_opt) /\ IsSome(call.width_opt)
       /\ IsSome(call.height_opt)
    THEN {k \in 1..Len(icons_paths) : Under(icons_paths[k], call) \in icon_files}
    ELSE {}

FirstRootWins ==
    IF RootsWithFile(input) = {} THEN Unwrap(output) = None
    ELSE Unwrap(output) =
            Some(Under(icons_paths[FirstIn(RootsWithFile(input))], input))

RelativeComponents(call) ==
    /\ ~IsAbsolute(call.name)
    /\ IsSome(call.origin_opt) => ~IsAbsolute(Unwrap(call.origin_opt))

C22_IconRootSearchOrder == IconPathReturned => FirstRootWins

\* C22 for an origin and a name that are relative paths: the path returned
\* is under the first root that has the file
C22_SearchOrderOfRelativeNames ==
    (IconPathReturned /\ RelativeComponents(input)) => FirstRootWins

\* the name is an absolute path of a file: icon_path returns that file,
\* which is under no icon-theme root
C22_Witness ==
    /\ IconPathReturned
    /\ IsAbsolute(input.name)
    /\ icons_paths # <<>>
    /\ RootsWithFile(input) = {}
    /\ Unwrap(output) = Some(<<input.name>>)

(***************************************************************************)
(* C23.  A Cached entry of a record without origin, or without a width or  *)
(* a height of its own, is never the result of icon(), whatever files      *)
(* there are under the icon-theme roots: the pass of the loop over it      *)
(* leaves the best match as it was, and a path icon() returns is the path  *)
(* of an entry that has all three.                                         *)
(***************************************************************************)
Unresolvable ==
    {k \in 1 .. Len(icon_info.icons) :
        /\ IconAt(k).tag = "Cached"
        /\ \/ ~IsSome(icon_info.origin_opt)
           \/ ~IsSome(IconAt(k).width)
           \/ ~IsSome(IconAt(k).height)}

C23_UnresolvableCachedSkipped ==
    (icon_handle # NoHandle) =>
        /\ \A k \in Unresolvable : SkippedAt(k)
        /\ icon_handle.kind = "path" =>
              \E k \in Resolving \ Unresolvable :
                 icon_handle = FromPath(Unwrap(IconPathAt(k)))

\* the record has no origin, the file of its Cached entry b.png is there
\* under the origin o1, a second entry has no width, and icon() has
\* returned a stock icon
C23_Witness ==
    /\ icon_handle.kind = "name"
    /\ ~IsSome(icon_info.origin_opt)
    /\ <<"icons1", "o1", <<64, 64>>, "b.png">> \in icon_files
    /\ Len(icon_info.icons) = 3
    /\ IconAt(1).tag = "Stock"
    /\ IconAt(2) = Cached("b.png", Some(64), Some(64), None)
    /\ IconAt(3) = Cached("d.png", None, Some(64), None)
    /\ icon_handle = FromName(IconAt(1).name, StockSize)

\* what load_original would build from the catalog files as they are now
CatalogNow ==
    Aggregate(Cleared, PathResults(SortedSeq(DOMAIN path_tags), fs, locale))

\* on every path a tag stands for one content
TagsDetermineContent ==
    \A p \in Paths : \A c, d \in TaggedContents(p) :
        SizeOf(c) = SizeOf(d) => c = d

\* C24: Cache coherence across file changes.  A tag standing for one
\* content, whenever load_cache has returned true the records it adopted
\* are the ones parsing the catalog files in their current state gives,
\* whatever files were modified between new(), load_original and
\* save_cache of the earlier reload.
C24_CacheCoherence ==
    (TagsDetermineContent /\ loadResult = "loaded") =>
        infos = CatalogNow.infos

\* C24, the case that holds: no catalog file was modified since the
\* session began.
C24_CoherentWhenUnmodified ==
    (TagsDetermineContent /\ loadResult = "loaded" /\ edits = 0) =>
        infos = CatalogNow.infos

\* no file was modified, a reload has saved the cache and a later reload
\* has loaded it
C24_Witness ==
    /\ edits = 0
    /\ loadResult = "loaded"
    /\ calls = ReloadLoaded
    /\ IsSome(saved)
    /\ infos = Unwrap(saved).infos
    /\ "app.a" \in DOMAIN infos

\* the identifiers the pass gives exactly one record for
OccurringOnce(items) ==
    {id \in IdsOf(items) :
        Cardinality({k \in 1 .. Len(items) : items[k][1] = id}) = 1}

IndexAgrees(ids) ==
    \A pkgname \in DOMAIN pkgnames' :
        \A id \in pkgnames'[pkgname] \cap ids :
            /\ id \in DOMAIN infos'
            /\ infos'[id].pkgname = Some(pkgname)

\* C25: Package index agrees with records.  After load_original, for
\* every package name p and every identifier i in pkgnames[p], the record
\* stored under i has the package name p.
C25_PackageIndexAgrees ==
    [][LoadOriginal => IndexAgrees(DOMAIN infos')]_vars

\* C25, for the identifiers the pass gives one record for: the record
\* stored under an identifier listed under p has the package name p.
C25_AgreesForSingleRecords ==
    [][LoadOriginal =>
         With(ParsedNow, LAMBDA parsed : IndexAgrees(OccurringOnce(parsed)))]_vars

\* load_original has run over a file that gives app.b once, with the
\* package pkg.p, and app.a more than once: app.b is listed under pkg.p
\* and its record has that package name
C25_Witness ==
    /\ pc = "save"
    /\ fs[1].content = "xmlMain"
    /\ "app.b" \in OccurringOnce(ParsedNow)
    /\ "app.a" \in IdsOf(ParsedNow) \ OccurringOnce(ParsedNow)
    /\ "pkg.p" \in DOMAIN pkgnames
    /\ "app.b" \in pkgnames["pkg.p"]
    /\ infos["app.b"].pkgname = Some("pkg.p")

LoadCacheFailures == {"nodir", "unreadable", "undecodable", "tags", "locale"}

\* C26: Failed load leaves state untouched.  When load_cache returns false
\* (cache directory unknown, file unreadable, decode failure, tag mismatch
\* or locale mismatch), infos and pkgnames are as before the call; and
\* every load_cache, successful or not, leaves path_tags, icons_paths, the
\* locale and the cache file unchanged.
C26_FailedLoadLeavesState ==
    [][(pc \in {"idle", "load"} /\ LoadCache) =>
         /\ loadResult' \in LoadCacheFailures \cup {"loaded"}
         /\ loadResult' \in LoadCacheFailures => UNCHANGED <<infos, pkgnames>>
         /\ UNCHANGED <<path_tags, icons_paths, locale, cacheFile>>]_vars

\* load_cache, called on an instance that holds the records of a pass,
\* has found a cache file another instance saved with other tags or
\* another locale, and the records are still those of the pass
C26_Witness ==
    /\ loadResult \in {"tags", "locale"}
    /\ calls = <<"load_cache">> \/ (reloading /\ pc = "orig")
    /\ cacheFile.kind = "bitcode"
    /\ infos # EmptyMap
    /\ pkgnames # EmptyMap
    /\ infos # Decoded.infos

\* C27: Several stock entries.  For a record in which no Cached entry
\* resolves to an existing file and that has Stock entries, icon() returns
\* the stock icon named by the last Stock entry of the icon list, at size
\* 128.
C27_LastStockEntryWins ==
    (icon_handle # NoHandle /\ Resolving = {} /\ StockEntries # {}) =>
        icon_handle = FromName(IconAt(LastIn(StockEntries)).name, StockSize)

\* icon() has returned for a record with two Stock entries of different
\* names around a Cached entry that does not resolve: the handle names
\* the second
C27_Witness ==
    /\ icon_handle # NoHandle
    /\ Resolving = {}
    /\ Len(icon_info.icons) = 3
    /\ IconAt(1).tag = "Stock"
    /\ IconAt(2).tag = "Cached"
    /\ IconAt(3).tag = "Stock"
    /\ IconAt(1).name # IconAt(3).name
    /\ icon_handle = FromName(IconAt(3).name, StockSize)
    /\ icon_handle.kind = "name"

=============================================================================
